---- MODULE Spec2Model ----
(***************************************************************************)
(* Pathos-AI: the search node, the path-search algorithms (bfs, dfs,       *)
(* uniform_cost_search, astar) and the CSP backtracking solver.            *)
(*                                                                         *)
(* A search runs over a domain drawn from a bounded family: a number line  *)
(* 0 .. NumStates-1 with the moves "-1" and "+1" of NumberLine (unit step  *)
(* cost), a right bound, and one further action of arbitrary source,       *)
(* target, cost and label.  One step of the model is one pass of the       *)
(* algorithm's main loop.                                                  *)
(***************************************************************************)
EXTENDS Integers, Sequences, FiniteSets, TLC

\* ---------------------------------------------------------------- bounds
NumStates == 5
MaxStepCost == 3
MaxH == 3
NumRegions == 3
NumColors == 3

States == 0 .. (NumStates - 1)
None == "None"
NoNode == 0
LineActions == {"-1", "+1"}
JumpLabels == {"jump", None}

VARIABLES
    problem,      \* the domain instance handed to the search
    heuristic,    \* the heuristic handed to astar: [hs, hv]
    alg,          \* which function was called
    pc,           \* "start" | "loop" | "done"
    nodes,        \* every Node object created so far; a Node is its index
    frontier,     \* deque (bfs), list (dfs), heap of [f, node] (astar)
    explored,     \* bfs / dfs: Set[S]
    cost_so_far,  \* astar: Dict[S, float]
    result,       \* the returned Node, NoNode for None
    actionsCalls, \* how often problem.actions was called
    expanded,     \* the states problem.actions was called on, in call order
    csp,          \* the MapColoringCSP handed to backtracking_search
    assignment,   \* the one dict shared by every _backtrack call
    stack,        \* the active _backtrack calls: [var, i], innermost last
    cpc,          \* "start" | "call" | "loop" | "return" | "done"
    returned,     \* what the call that just ended returned
    cresult,      \* what backtracking_search returned
    phase,        \* 0: one call; 1: first call of three; 2: the later two
    alone,        \* phase 2: what the first call, run alone, returned
    suspended,    \* phase 2: the locals of the invocation not running now
    game,         \* the TicTacToe instance being played
    board         \* the board the game has reached: cell index -> 0, +1, -1

searchVars == <<problem, heuristic, alg, pc, nodes, frontier, explored,
                cost_so_far, result, actionsCalls, expanded>>

cspVars == <<csp, assignment, stack, cpc, returned, cresult>>

runVars == <<phase, alone, suspended>>

gameVars == <<game, board>>

vars == <<searchVars, cspVars, runVars, gameVars>>

\* ---------------------------------------------------------------- domain
Problems ==
    [rightBound : States, goal : 0 .. NumStates,
     jumpFrom : States, jumpTo : States, jumpCost : 0 .. MaxStepCost,
     jumpAct : JumpLabels, costSensitive : BOOLEAN]

\* A maze is a grid of length rows and width columns, cells <<row, col>>
\* counted from 0, some of them walls; a move leads to the adjacent cell
\* in one of four directions and is available when that cell is inside the
\* grid and is no wall. Every move costs 1.0. The order in which a cell's
\* moves are listed is a field of the maze.
Moves == {"up", "down", "left", "right"}

IsMaze(p) == "walls" \in DOMAIN p

Moved(s, a) ==
    IF a = "up" THEN <<s[1] - 1, s[2]>>
    ELSE IF a = "down" THEN <<s[1] + 1, s[2]>>
    ELSE IF a = "left" THEN <<s[1], s[2] - 1>>
    ELSE <<s[1], s[2] + 1>>

Cells(p) == (0 .. p.length - 1) \X (0 .. p.width - 1)

maze_actions(p, s) ==
    SelectSeq(p.order, LAMBDA a : /\ Moved(s, a) \in Cells(p)
                                  /\ Moved(s, a) \notin p.walls)

Maze(length, width, walls, start, goal, order) ==
    [length |-> length, width |-> width, walls |-> walls,
     start |-> start, goal |-> goal, order |-> order,
     costSensitive |-> FALSE]

Abs(x) == IF x < 0 THEN -x ELSE x

\* |row - goal row| + |column - goal column|
manhattan_heuristic(goal) == [goal |-> goal]

initial_state(p) == IF IsMaze(p) THEN p.start ELSE 0

actions(p, s) ==
    IF IsMaze(p) THEN maze_actions(p, s)
    ELSE (IF s > 0 THEN <<"-1">> ELSE <<>>)
         \o (IF s < p.rightBound THEN <<"+1">> ELSE <<>>)
         \o (IF s = p.jumpFrom THEN <<p.jumpAct>> ELSE <<>>)

domain_result(p, s, a) ==
    IF IsMaze(p) THEN Moved(s, a)
    ELSE IF a = "+1" THEN s + 1
    ELSE IF a = "-1" THEN s - 1
    ELSE IF a = p.jumpAct /\ s = p.jumpFrom THEN p.jumpTo
    ELSE s

step_cost(p, s, a, s2) ==
    IF a \in LineActions THEN 1 ELSE p.jumpCost

is_goal(p, s) == s = p.goal

\* ---------------------------------------------------------------- Node
Node(state, parent, action, path_cost, ns) ==
    [state |-> state, parent |-> parent, action |-> action,
     path_cost |-> path_cost,
     depth |-> IF parent # NoNode THEN ns[parent].depth + 1 ELSE 0]

RootNode(state) == Node(state, NoNode, None, 0, <<>>)

\* a child whose parent is the newest node, not the node expanded
child_of_newest(ns, id, state, action, cost) ==
    Node(state, Len(ns), action, ns[id].path_cost + cost, ns)

\* a child that records the step cost alone, not the cost of the whole path
child_step_cost_only(ns, id, state, action, cost) ==
    Node(state, id, action, cost, ns)

child(ns, id, state, action, cost) ==
    Node(state, id, action, ns[id].path_cost + cost, ns)

\* a __lt__ that puts the dearer node first
NodeLt_dearer_first(ns, a, b) == ns[a].path_cost > ns[b].path_cost

NodeLt(ns, a, b) == ns[a].path_cost < ns[b].path_cost

\* expand that charges 1.0 for every action, step_cost or not
expand_unit_cost(p, ns, id) ==
    LET acts == actions(p, ns[id].state)
    IN  [i \in 1 .. Len(acts) |->
            child(ns, id, domain_result(p, ns[id].state, acts[i]), acts[i], 1)]

\* expand that builds the children from the last action to the first
expand_reversed(p, ns, id) ==
    LET acts == actions(p, ns[id].state)
    IN  [i \in 1 .. Len(acts) |->
            LET a == acts[Len(acts) + 1 - i]
                next_state == domain_result(p, ns[id].state, a)
                cost == IF p.costSensitive
                        THEN step_cost(p, ns[id].state, a, next_state)
                        ELSE 1
            IN  child(ns, id, next_state, a, cost)]

\* the children of node id, in the order the domain yields the actions
expand(p, ns, id) ==
    LET acts == actions(p, ns[id].state)
    IN  [i \in 1 .. Len(acts) |->
            LET next_state == domain_result(p, ns[id].state, acts[i])
                cost == IF p.costSensitive
                        THEN step_cost(p, ns[id].state, acts[i], next_state)
                        ELSE 1
            IN  child(ns, id, next_state, acts[i], cost)]

RECURSIVE extract_solution_path(_, _)
extract_solution_path(ns, id) ==
    IF ns[id].parent = NoNode THEN <<>>
    ELSE extract_solution_path(ns, ns[id].parent)
         \o (IF ns[id].action # None THEN <<ns[id].action>> ELSE <<>>)

RECURSIVE extract_state_path(_, _)
extract_state_path(ns, id) ==
    IF id = NoNode THEN <<>>
    ELSE Append(extract_state_path(ns, ns[id].parent), ns[id].state)

\* ------------------------------------------------------------ arena cap
\* No search creates more Node objects than this: a state has at most
\* MaxBranch actions; bfs and dfs expand a state once, astar once per cost
\* recorded for it, and a recorded path visits no state twice.
MaxBranch == Cardinality(LineActions) + 1

MaxPathCost == (NumStates - 1) * (IF MaxStepCost > 1 THEN MaxStepCost ELSE 1)

NodeCap(a) ==
    IF IsMaze(problem)
    THEN 2 + Cardinality(Moves) * problem.length * problem.width
    ELSE IF a \in {"bfs", "dfs"} THEN 2 + MaxBranch * NumStates
    ELSE 2 + MaxBranch * NumStates * (MaxPathCost + 1)

\* ---------------------------------------------------------------- bfs
NewIds(ns, kids) == [i \in 1 .. Len(kids) |-> Len(ns) + i]

\* deque.popleft() taking the last element instead of the first
popleft_lifo(fr) ==
    [item |-> fr[Len(fr)], rest |-> SubSeq(fr, 1, Len(fr) - 1)]

popleft(fr) == [item |-> Head(fr), rest |-> Tail(fr)]

\* the for-loop of bfs without the goal test on a generated child
RECURSIVE bfs_children_untested(_, _, _, _, _, _)
bfs_children_untested(p, ns, kids, i, ex, fr) ==
    IF i > Len(kids) THEN [explored |-> ex, frontier |-> fr, ret |-> NoNode]
    ELSE IF ns[kids[i]].state \notin ex
    THEN bfs_children_untested(p, ns, kids, i + 1,
                               ex \cup {ns[kids[i]].state}, Append(fr, kids[i]))
    ELSE bfs_children_untested(p, ns, kids, i + 1, ex, fr)

\* the for-loop of bfs without explored.add(child.state)
RECURSIVE bfs_children_unmarked(_, _, _, _, _, _)
bfs_children_unmarked(p, ns, kids, i, ex, fr) ==
    IF i > Len(kids) THEN [explored |-> ex, frontier |-> fr, ret |-> NoNode]
    ELSE IF ns[kids[i]].state \notin ex
    THEN IF is_goal(p, ns[kids[i]].state)
         THEN [explored |-> ex, frontier |-> fr, ret |-> kids[i]]
         ELSE bfs_children_unmarked(p, ns, kids, i + 1, ex, Append(fr, kids[i]))
    ELSE bfs_children_unmarked(p, ns, kids, i + 1, ex, fr)

\* the for-loop of bfs over the children of the dequeued node
RECURSIVE bfs_children(_, _, _, _, _, _)
bfs_children(p, ns, kids, i, ex, fr) ==
    IF i > Len(kids) THEN [explored |-> ex, frontier |-> fr, ret |-> NoNode]
    ELSE IF ns[kids[i]].state \notin ex
    THEN IF is_goal(p, ns[kids[i]].state)
         THEN [explored |-> ex, frontier |-> fr, ret |-> kids[i]]
         ELSE bfs_children(p, ns, kids, i + 1,
                           ex \cup {ns[kids[i]].state}, Append(fr, kids[i]))
    ELSE bfs_children(p, ns, kids, i + 1, ex, fr)

\* bfs without the goal test on the initial state
bfs_start_unchecked ==
    /\ alg = "bfs" /\ pc = "start"
    /\ nodes' = <<RootNode(initial_state(problem))>>
    /\ pc' = "loop" /\ frontier' = <<1>>
    /\ explored' = {initial_state(problem)}
    /\ UNCHANGED <<runVars, gameVars, cspVars, problem, heuristic, alg, cost_so_far, actionsCalls, expanded, result>>

\* bfs whose explored set outlives the call (a set bound once per module)
bfs_start_shared_explored ==
    /\ alg = "bfs" /\ pc = "start"
    /\ nodes' = <<RootNode(initial_state(problem))>>
    /\ IF is_goal(problem, initial_state(problem))
       THEN /\ pc' = "done" /\ result' = 1
            /\ UNCHANGED <<frontier, explored>>
       ELSE /\ pc' = "loop" /\ frontier' = <<1>>
            /\ explored' = explored \cup {initial_state(problem)}
            /\ UNCHANGED result
    /\ UNCHANGED <<runVars, gameVars, cspVars, problem, heuristic, alg, cost_so_far, actionsCalls, expanded>>

bfs_start ==
    /\ alg = "bfs" /\ pc = "start"
    /\ nodes' = <<RootNode(initial_state(problem))>>
    /\ IF is_goal(problem, initial_state(problem))
       THEN /\ pc' = "done" /\ result' = 1
            /\ UNCHANGED <<frontier, explored>>
       ELSE /\ pc' = "loop" /\ frontier' = <<1>>
            /\ explored' = {initial_state(problem)}
            /\ UNCHANGED result
    /\ UNCHANGED <<runVars, gameVars, cspVars, problem, heuristic, alg, cost_so_far, actionsCalls, expanded>>

bfs_step ==
    /\ alg = "bfs" /\ pc = "loop" /\ frontier # <<>>
    /\ Len(nodes) < NodeCap(alg)
    /\ \E node \in {popleft(frontier).item} :
       \E kids \in {expand(problem, nodes, node)} :
       \E r \in {bfs_children(problem, nodes \o kids, NewIds(nodes, kids), 1,
                              explored, popleft(frontier).rest)} :
           /\ nodes' = nodes \o kids
           /\ actionsCalls' = actionsCalls + 1
           /\ expanded' = Append(expanded, nodes[node].state)
           /\ explored' = r.explored
           /\ frontier' = r.frontier
           /\ IF r.ret # NoNode
              THEN pc' = "done" /\ result' = r.ret
              ELSE UNCHANGED <<pc, result>>
    /\ UNCHANGED <<runVars, gameVars, cspVars, problem, heuristic, alg, cost_so_far>>

bfs_fail ==
    /\ alg = "bfs" /\ pc = "loop" /\ frontier = <<>>
    /\ pc' = "done" /\ result' = NoNode
    /\ UNCHANGED <<runVars, gameVars, cspVars, problem, heuristic, alg, nodes, frontier, explored,
                   cost_so_far, actionsCalls, expanded>>

\* ---------------------------------------------------------------- dfs
\* pop that takes the oldest node of the stack
pop_oldest(fr) == [item |-> Head(fr), rest |-> Tail(fr)]

pop(fr) == [item |-> fr[Len(fr)], rest |-> SubSeq(fr, 1, Len(fr) - 1)]

\* the for-loop of dfs that pushes no child but the first
dfs_children_first_only(ns, kids, i, ex, fr) ==
    IF kids # <<>> /\ ns[kids[1]].state \notin ex
    THEN Append(fr, kids[1])
    ELSE fr

RECURSIVE dfs_children(_, _, _, _, _)
dfs_children(ns, kids, i, ex, fr) ==
    IF i > Len(kids) THEN fr
    ELSE IF ns[kids[i]].state \notin ex
    THEN dfs_children(ns, kids, i + 1, ex, Append(fr, kids[i]))
    ELSE dfs_children(ns, kids, i + 1, ex, fr)

\* dfs whose explored set outlives the call
dfs_start_shared_explored ==
    /\ alg = "dfs" /\ pc = "start"
    /\ nodes' = <<RootNode(initial_state(problem))>>
    /\ IF is_goal(problem, initial_state(problem))
       THEN /\ pc' = "done" /\ result' = 1
            /\ UNCHANGED <<frontier, explored>>
       ELSE /\ pc' = "loop" /\ frontier' = <<1>>
            /\ UNCHANGED <<explored, result>>
    /\ UNCHANGED <<runVars, gameVars, cspVars, problem, heuristic, alg, cost_so_far, actionsCalls, expanded>>

\* dfs whose explored set starts with the initial state, as that of bfs
dfs_start_marked_root ==
    /\ alg = "dfs" /\ pc = "start"
    /\ nodes' = <<RootNode(initial_state(problem))>>
    /\ IF is_goal(problem, initial_state(problem))
       THEN /\ pc' = "done" /\ result' = 1
            /\ UNCHANGED <<frontier, explored>>
       ELSE /\ pc' = "loop" /\ frontier' = <<1>>
            /\ explored' = {initial_state(problem)}
            /\ UNCHANGED result
    /\ UNCHANGED <<runVars, gameVars, cspVars, problem, heuristic, alg, cost_so_far, actionsCalls, expanded>>

dfs_start ==
    /\ alg = "dfs" /\ pc = "start"
    /\ nodes' = <<RootNode(initial_state(problem))>>
    /\ IF is_goal(problem, initial_state(problem))
       THEN /\ pc' = "done" /\ result' = 1
            /\ UNCHANGED <<frontier, explored>>
       ELSE /\ pc' = "loop" /\ frontier' = <<1>>
            /\ explored' = {}
            /\ UNCHANGED result
    /\ UNCHANGED <<runVars, gameVars, cspVars, problem, heuristic, alg, cost_so_far, actionsCalls, expanded>>

\* dfs that also tests a child for the goal when it is generated
dfs_step_goal_at_generation ==
    /\ alg = "dfs" /\ pc = "loop" /\ frontier # <<>>
    /\ Len(nodes) < NodeCap(alg)
    /\ \E node \in {pop(frontier).item} :
       \E rest \in {pop(frontier).rest} :
           IF is_goal(problem, nodes[node].state)
           THEN /\ pc' = "done" /\ result' = node
                /\ frontier' = rest
                /\ UNCHANGED <<nodes, explored, actionsCalls, expanded>>
           ELSE IF nodes[node].state \notin explored
           THEN \E kids \in {expand(problem, nodes, node)} :
                    /\ nodes' = nodes \o kids
                    /\ actionsCalls' = actionsCalls + 1
                    /\ expanded' = Append(expanded, nodes[node].state)
                    /\ explored' = explored \cup {nodes[node].state}
                    /\ frontier' = dfs_children(nodes \o kids,
                                                NewIds(nodes, kids), 1,
                                                explored \cup {nodes[node].state},
                                                rest)
                    /\ IF \E k \in DOMAIN kids : is_goal(problem, kids[k].state)
                       THEN /\ pc' = "done"
                            /\ result' = Len(nodes) + CHOOSE k \in DOMAIN kids :
                                   /\ is_goal(problem, kids[k].state)
                                   /\ \A m \in 1 .. k - 1 :
                                          ~is_goal(problem, kids[m].state)
                       ELSE UNCHANGED <<pc, result>>
           ELSE /\ frontier' = rest
                /\ UNCHANGED <<pc, result, nodes, explored, actionsCalls, expanded>>
    /\ UNCHANGED <<runVars, gameVars, cspVars, problem, heuristic, alg, cost_so_far>>

\* dfs without explored.add(node.state)
dfs_step_unmarked ==
    /\ alg = "dfs" /\ pc = "loop" /\ frontier # <<>>
    /\ Len(nodes) < NodeCap(alg)
    /\ \E node \in {pop(frontier).item} :
       \E rest \in {pop(frontier).rest} :
           IF is_goal(problem, nodes[node].state)
           THEN /\ pc' = "done" /\ result' = node
                /\ frontier' = rest
                /\ UNCHANGED <<nodes, explored, actionsCalls, expanded>>
           ELSE IF nodes[node].state \notin explored
           THEN \E kids \in {expand(problem, nodes, node)} :
                    /\ nodes' = nodes \o kids
                    /\ actionsCalls' = actionsCalls + 1
                    /\ expanded' = Append(expanded, nodes[node].state)
                    /\ explored' = explored
                    /\ frontier' = dfs_children(nodes \o kids,
                                                NewIds(nodes, kids), 1,
                                                explored,
                                                rest)
                    /\ UNCHANGED <<pc, result>>
           ELSE /\ frontier' = rest
                /\ UNCHANGED <<pc, result, nodes, explored, actionsCalls, expanded>>
    /\ UNCHANGED <<runVars, gameVars, cspVars, problem, heuristic, alg, cost_so_far>>

dfs_step ==
    /\ alg = "dfs" /\ pc = "loop" /\ frontier # <<>>
    /\ Len(nodes) < NodeCap(alg)
    /\ \E node \in {pop(frontier).item} :
       \E rest \in {pop(frontier).rest} :
           IF is_goal(problem, nodes[node].state)
           THEN /\ pc' = "done" /\ result' = node
                /\ frontier' = rest
                /\ UNCHANGED <<nodes, explored, actionsCalls, expanded>>
           ELSE IF nodes[node].state \notin explored
           THEN \E kids \in {expand(problem, nodes, node)} :
                    /\ nodes' = nodes \o kids
                    /\ actionsCalls' = actionsCalls + 1
                    /\ expanded' = Append(expanded, nodes[node].state)
                    /\ explored' = explored \cup {nodes[node].state}
                    /\ frontier' = dfs_children(nodes \o kids,
                                                NewIds(nodes, kids), 1,
                                                explored \cup {nodes[node].state},
                                                rest)
                    /\ UNCHANGED <<pc, result>>
           ELSE /\ frontier' = rest
                /\ UNCHANGED <<pc, result, nodes, explored, actionsCalls, expanded>>
    /\ UNCHANGED <<runVars, gameVars, cspVars, problem, heuristic, alg, cost_so_far>>

dfs_fail ==
    /\ alg = "dfs" /\ pc = "loop" /\ frontier = <<>>
    /\ pc' = "done" /\ result' = NoNode
    /\ UNCHANGED <<runVars, gameVars, cspVars, problem, heuristic, alg, nodes, frontier, explored,
                   cost_so_far, actionsCalls, expanded>>

\* ---------------------------------------------------------------- astar
null_heuristic == [hs |-> 0, hv |-> 0]

\* the heuristics handed to astar directly: MaxH at one state, zero
\* elsewhere (zero everywhere is what uniform_cost_search hands to astar)
Heuristics == [hs : States, hv : {MaxH}]

h(hr, s) ==
    IF "goal" \in DOMAIN hr
    THEN Abs(s[1] - hr.goal[1]) + Abs(s[2] - hr.goal[2])
    ELSE IF hr.hv = 0 THEN 0
    ELSE IF s = hr.hs THEN hr.hv ELSE 0

\* (f_score, node) tuples as Python compares them: by f_score, then by Node.__lt__
EntryLt(ns, a, b) ==
    \/ a.f < b.f
    \/ a.f = b.f /\ a.node # b.node /\ NodeLt(ns, a.node, b.node)

\* heapq._siftdown; positions count from 0 as in the list
RECURSIVE siftdown(_, _, _, _, _)
siftdown(ns, heap, newitem, startpos, pos) ==
    IF pos > startpos /\ EntryLt(ns, newitem, heap[((pos - 1) \div 2) + 1])
    THEN siftdown(ns, [heap EXCEPT ![pos + 1] = heap[((pos - 1) \div 2) + 1]],
                  newitem, startpos, (pos - 1) \div 2)
    ELSE [heap EXCEPT ![pos + 1] = newitem]

\* heapq._siftup
RECURSIVE siftup(_, _, _, _, _)
siftup(ns, heap, newitem, startpos, pos) ==
    LET childpos == 2 * pos + 1
        rightpos == childpos + 1
        c == IF rightpos < Len(heap)
                /\ ~EntryLt(ns, heap[childpos + 1], heap[rightpos + 1])
             THEN rightpos ELSE childpos
    IN  IF childpos < Len(heap)
        THEN siftup(ns, [heap EXCEPT ![pos + 1] = heap[c + 1]],
                    newitem, startpos, c)
        ELSE siftdown(ns, heap, newitem, startpos, pos)

heappush(ns, heap, item) ==
    siftdown(ns, Append(heap, item), item, 0, Len(heap))

\* heappop that takes the last entry of the list
heappop_last(ns, heap) ==
    [item |-> heap[Len(heap)], heap |-> SubSeq(heap, 1, Len(heap) - 1)]

heappop(ns, heap) ==
    LET lastelt == heap[Len(heap)]
        rest == SubSeq(heap, 1, Len(heap) - 1)
    IN  IF rest # <<>>
        THEN [item |-> rest[1], heap |-> siftup(ns, rest, lastelt, 0, 0)]
        ELSE [item |-> lastelt, heap |-> rest]

InCost(csf, s) == s \in DOMAIN csf

\* the cost of a state already recorded is left as it is
SetCost_first_only(csf, s, c) ==
    [x \in DOMAIN csf \cup {s} |-> IF x \in DOMAIN csf THEN csf[x] ELSE c]

SetCost(csf, s, c) ==
    [x \in DOMAIN csf \cup {s} |-> IF x = s THEN c ELSE csf[x]]

\* a child is pushed only for a state never seen: no cheaper path is recorded
Improves_new_only(csf, st, new_cost) == ~InCost(csf, st)

\* a child is pushed also when its cost equals the recorded one
Improves_or_equal(csf, st, new_cost) == ~InCost(csf, st) \/ new_cost <= csf[st]

\* child.state not in cost_so_far or new_cost < cost_so_far[child.state]
Improves(csf, st, new_cost) == ~InCost(csf, st) \/ new_cost < csf[st]

\* the pass that leaves the heuristic out, f = path_cost
astar_child_no_heuristic(hr, ns, c, csf, fr) ==
    IF Improves(csf, ns[c].state, ns[c].path_cost)
    THEN [cost_so_far |-> SetCost(csf, ns[c].state, ns[c].path_cost),
          frontier |-> heappush(ns, fr, [f |-> ns[c].path_cost, node |-> c])]
    ELSE [cost_so_far |-> csf, frontier |-> fr]

\* the pass that orders the heap by the heuristic alone, f = h(state)
astar_child_greedy(hr, ns, c, csf, fr) ==
    IF Improves(csf, ns[c].state, ns[c].path_cost)
    THEN [cost_so_far |-> SetCost(csf, ns[c].state, ns[c].path_cost),
          frontier |-> heappush(ns, fr, [f |-> h(hr, ns[c].state),
                                         node |-> c])]
    ELSE [cost_so_far |-> csf, frontier |-> fr]

\* one pass of the for-loop of astar: child c against the cost map and heap
astar_child(hr, ns, c, csf, fr) ==
    IF Improves(csf, ns[c].state, ns[c].path_cost)
    THEN [cost_so_far |-> SetCost(csf, ns[c].state, ns[c].path_cost),
          frontier |-> heappush(ns, fr, [f |-> ns[c].path_cost + h(hr, ns[c].state),
                                         node |-> c])]
    ELSE [cost_so_far |-> csf, frontier |-> fr]

\* the for-loop of astar over the children of the expanded node
RECURSIVE astar_children(_, _, _, _, _, _)
astar_children(hr, ns, kids, i, csf, fr) ==
    IF i > Len(kids) THEN [cost_so_far |-> csf, frontier |-> fr]
    ELSE CHOOSE r \in {astar_children(hr, ns, kids, i + 1,
                                      a.cost_so_far, a.frontier) :
                         a \in {astar_child(hr, ns, kids[i], csf, fr)}} : TRUE

astar_start ==
    /\ alg \in {"astar", "ucs"} /\ pc = "start"
    /\ nodes' = <<RootNode(initial_state(problem))>>
    /\ IF is_goal(problem, initial_state(problem))
       THEN /\ pc' = "done" /\ result' = 1
            /\ UNCHANGED <<frontier, cost_so_far>>
       ELSE /\ pc' = "loop"
            /\ frontier' = heappush(nodes', <<>>,
                              [f |-> 0 + h(heuristic, initial_state(problem)),
                               node |-> 1])
            /\ cost_so_far' = SetCost(<<>>, initial_state(problem), 0)
            /\ UNCHANGED result
    /\ UNCHANGED <<runVars, gameVars, cspVars, problem, heuristic, alg, explored, actionsCalls, expanded>>

\* astar without the test of the popped node against cost_so_far
astar_step_no_lazy_deletion ==
    /\ alg \in {"astar", "ucs"} /\ pc = "loop" /\ frontier # <<>>
    /\ Len(nodes) < NodeCap(alg)
    /\ \E top \in {heappop(nodes, frontier)} :
       \E node \in {top.item.node} :
           IF is_goal(problem, nodes[node].state)
           THEN /\ pc' = "done" /\ result' = node
                /\ frontier' = top.heap
                /\ UNCHANGED <<nodes, cost_so_far, actionsCalls, expanded>>
           ELSE \E kids \in {expand(problem, nodes, node)} :
                \E r \in {astar_children(heuristic, nodes \o kids,
                                         NewIds(nodes, kids), 1,
                                         cost_so_far, top.heap)} :
                    /\ nodes' = nodes \o kids
                    /\ actionsCalls' = actionsCalls + 1
                    /\ expanded' = Append(expanded, nodes[node].state)
                    /\ cost_so_far' = r.cost_so_far
                    /\ frontier' = r.frontier
                    /\ UNCHANGED <<pc, result>>
    /\ UNCHANGED <<runVars, gameVars, cspVars, problem, heuristic, alg, explored>>

astar_step ==
    /\ alg \in {"astar", "ucs"} /\ pc = "loop" /\ frontier # <<>>
    /\ Len(nodes) < NodeCap(alg)
    /\ \E top \in {heappop(nodes, frontier)} :
       \E node \in {top.item.node} :
           IF nodes[node].path_cost > cost_so_far[nodes[node].state]
           THEN /\ frontier' = top.heap
                /\ UNCHANGED <<pc, result, nodes, cost_so_far, actionsCalls, expanded>>
           ELSE IF is_goal(problem, nodes[node].state)
           THEN /\ pc' = "done" /\ result' = node
                /\ frontier' = top.heap
                /\ UNCHANGED <<nodes, cost_so_far, actionsCalls, expanded>>
           ELSE \E kids \in {expand(problem, nodes, node)} :
                \E r \in {astar_children(heuristic, nodes \o kids,
                                         NewIds(nodes, kids), 1,
                                         cost_so_far, top.heap)} :
                    /\ nodes' = nodes \o kids
                    /\ actionsCalls' = actionsCalls + 1
                    /\ expanded' = Append(expanded, nodes[node].state)
                    /\ cost_so_far' = r.cost_so_far
                    /\ frontier' = r.frontier
                    /\ UNCHANGED <<pc, result>>
    /\ UNCHANGED <<runVars, gameVars, cspVars, problem, heuristic, alg, explored>>

astar_fail ==
    /\ alg \in {"astar", "ucs"} /\ pc = "loop" /\ frontier = <<>>
    /\ pc' = "done" /\ result' = NoNode
    /\ UNCHANGED <<runVars, gameVars, cspVars, problem, heuristic, alg, nodes, frontier, explored,
                   cost_so_far, actionsCalls, expanded>>

\* ---------------------------------------------------------------- search
Algorithms == {"bfs", "dfs", "ucs", "astar"}

\* A domain without step_cost costs 1.0 per action; the action that is
\* None belongs to such a domain (TrivialProblem is GoalOriented[int, None]).
InitialProblems ==
    {p \in Problems : /\ ~p.costSensitive => p.jumpCost = 1
                      /\ p.costSensitive => p.jumpAct # None}

Init ==
    /\ problem \in InitialProblems
    /\ alg \in Algorithms
    /\ heuristic \in IF alg = "astar" THEN Heuristics ELSE {null_heuristic}
    /\ pc = "start"
    /\ nodes = <<>>
    /\ frontier = <<>>
    /\ explored = {}
    /\ cost_so_far = <<>>
    /\ result = NoNode
    /\ actionsCalls = 0 /\ expanded = <<>>
    /\ csp = None /\ assignment = <<>> /\ stack = <<>>
    /\ cpc = "idle" /\ returned = None /\ cresult = None
    /\ phase = 0 /\ alone = None /\ suspended = None
    /\ game = None /\ board = <<>>

Next ==
    \/ bfs_start \/ bfs_step \/ bfs_fail
    \/ dfs_start \/ dfs_step \/ dfs_fail
    \/ astar_start \/ astar_step \/ astar_fail

Spec == Init /\ [][Next]_vars

\* A call runs to its return: the loop is a plain sequential loop.  No loop
\* condition reads the label of an action, and a domain without step_cost
\* behaves as one whose every step costs 1, so the fair runs start from
\* the domains that provide step_cost.
FairInit == Init /\ problem.costSensitive

FairSpec == FairInit /\ [][Next]_vars /\ WF_vars(Next)

\* ---------------------------------------------------------------- csp
Regions == 1 .. NumRegions
Colors == 1 .. NumColors

\* MapColoringCSP(regions, colors, neighbors): the regions in declared
\* order, one colour list, and for every region the set of its neighbours
MapColoringCSP(n, k, nb) ==
    [variables |-> [i \in 1 .. n |-> i],
     colors |-> [j \in 1 .. k |-> j],
     neighbors |-> nb]

\* the neighbour dicts over n regions: any set of ordered pairs <<v, w>>
\* meaning "w is in neighbors[v]"
NeighborDicts(n) ==
    {[v \in 1 .. n |-> {w \in 1 .. n : <<v, w>> \in pairs}] :
        pairs \in SUBSET {q \in (1 .. n) \X (1 .. n) : q[1] # q[2]}}

\* every region gets a copy of the same colour list
domains(c) == [v \in {c.variables[i] : i \in 1 .. Len(c.variables)} |-> c.colors]

\* is_consistent that tests the value against every bound variable
is_consistent_all_assigned(c, variable, value, asg) ==
    \A other \in DOMAIN asg : asg[other] # value

\* is_consistent that accepts when some bound neighbour differs
is_consistent_any(c, variable, value, asg) ==
    \/ c.neighbors[variable] \cap DOMAIN asg = {}
    \/ \E neighbor \in c.neighbors[variable] \cap DOMAIN asg :
          asg[neighbor] # value

is_consistent(c, variable, value, asg) ==
    \A neighbor \in c.neighbors[variable] :
        neighbor \in DOMAIN asg => asg[neighbor] # value

\* the key of min(): how many values of var's domain are consistent
legal_values(c, var, asg) ==
    Cardinality({j \in 1 .. Len(domains(c)[var]) :
                    is_consistent(c, var, domains(c)[var][j], asg)})

\* the list of variables without the "if v not in assignment" filter
unassigned_unfiltered(c, asg) == c.variables

unassigned(c, asg) ==
    SelectSeq(c.variables, LAMBDA v : v \notin DOMAIN asg)

\* a min() that returns the last element with the smallest key
select_last_minimal(asg, c) ==
    LET un == unassigned(c, asg)
        last == CHOOSE i \in 1 .. Len(un) :
                   /\ \A j \in 1 .. Len(un) :
                         legal_values(c, un[i], asg) <= legal_values(c, un[j], asg)
                   /\ \A j \in (i + 1) .. Len(un) :
                         legal_values(c, un[j], asg) > legal_values(c, un[i], asg)
    IN un[last]

\* min(unassigned, key): the first element with the smallest key
select_unassigned_variable(asg, c) ==
    LET un == unassigned(c, asg)
        first == CHOOSE i \in 1 .. Len(un) :
                    /\ \A j \in 1 .. Len(un) :
                          legal_values(c, un[i], asg) <= legal_values(c, un[j], asg)
                    /\ \A j \in 1 .. (i - 1) :
                          legal_values(c, un[j], asg) > legal_values(c, un[i], asg)
    IN un[first]

SetItem(asg, var, value) ==
    [x \in DOMAIN asg \cup {var} |-> IF x = var THEN value ELSE asg[x]]

DelItem(asg, var) == [x \in DOMAIN asg \ {var} |-> asg[x]]

Top(st) == st[Len(st)]

Pop(st) == SubSeq(st, 1, Len(st) - 1)

NextValue(st) ==
    [st EXCEPT ![Len(st)].i = @ + 1]

\* backtracking_search: call _backtrack with an empty assignment
backtracking_search ==
    /\ cpc = "start"
    /\ assignment' = <<>>
    /\ cpc' = "call"
    /\ UNCHANGED <<runVars, gameVars, searchVars, csp, stack, returned, cresult>>

\* _backtrack is entered: the base case, else the choice of the variable
\* (a frame also remembers the assignment it was entered with; the
\* algorithm never reads it)
backtrack_enter ==
    /\ cpc = "call"
    /\ IF Cardinality(DOMAIN assignment) = Len(csp.variables)
       THEN /\ returned' = "assignment"
            /\ cpc' = "return"
            /\ UNCHANGED stack
       ELSE /\ \E var \in {select_unassigned_variable(assignment, csp)} :
                  stack' = Append(stack, [var |-> var, i |-> 1,
                                          entry |-> assignment])
            /\ cpc' = "loop"
            /\ UNCHANGED returned
    /\ UNCHANGED <<runVars, gameVars, searchVars, csp, assignment, cresult>>

\* one pass of "for value in csp.domains[var]" up to the recursive call
backtrack_value ==
    /\ cpc = "loop"
    /\ Top(stack).i <= Len(domains(csp)[Top(stack).var])
    /\ \E var \in {Top(stack).var} :
       \E value \in {domains(csp)[var][Top(stack).i]} :
          IF is_consistent(csp, var, value, assignment)
          THEN /\ assignment' = SetItem(assignment, var, value)
               /\ cpc' = "call"
               /\ UNCHANGED stack
          ELSE /\ stack' = NextValue(stack)
               /\ UNCHANGED <<assignment, cpc>>
    /\ UNCHANGED <<runVars, gameVars, searchVars, csp, returned, cresult>>

\* the for-loop ran out of values: return None
backtrack_exhausted ==
    /\ cpc = "loop"
    /\ Top(stack).i > Len(domains(csp)[Top(stack).var])
    /\ stack' = Pop(stack)
    /\ returned' = None
    /\ cpc' = "return"
    /\ UNCHANGED <<runVars, gameVars, searchVars, csp, assignment, cresult>>

\* a resume that goes on to the next value without "del assignment[var]"
backtrack_resume_no_undo ==
    /\ cpc = "return" /\ stack # <<>>
    /\ IF returned # None
       THEN /\ stack' = Pop(stack)
            /\ UNCHANGED <<assignment, cpc>>
       ELSE /\ stack' = NextValue(stack)
            /\ cpc' = "loop"
            /\ UNCHANGED assignment
    /\ UNCHANGED <<runVars, gameVars, searchVars, csp, returned, cresult>>

\* a resume without "if result is not None: return result"
backtrack_resume_no_short_circuit ==
    /\ cpc = "return" /\ stack # <<>>
    /\ assignment' = DelItem(assignment, Top(stack).var)
    /\ stack' = NextValue(stack)
    /\ cpc' = "loop"
    /\ UNCHANGED <<runVars, gameVars, searchVars, csp, returned, cresult>>

\* the recursive call came back: pass a result up, or undo and go on
backtrack_resume ==
    /\ cpc = "return" /\ stack # <<>>
    /\ IF returned # None
       THEN /\ stack' = Pop(stack)
            /\ UNCHANGED <<assignment, cpc>>
       ELSE /\ assignment' = DelItem(assignment, Top(stack).var)
            /\ stack' = NextValue(stack)
            /\ cpc' = "loop"
    /\ UNCHANGED <<runVars, gameVars, searchVars, csp, returned, cresult>>

\* the outermost _backtrack came back to backtracking_search
backtracking_search_return ==
    /\ cpc = "return" /\ stack = <<>>
    /\ cresult' = returned
    /\ cpc' = "done"
    /\ UNCHANGED <<runVars, gameVars, searchVars, csp, assignment, stack, returned>>

InitCSP ==
    /\ \E n \in 0 .. NumRegions, k \in 0 .. NumColors :
          \E nb \in NeighborDicts(n) : csp = MapColoringCSP(n, k, nb)
    /\ assignment = <<>> /\ stack = <<>>
    /\ cpc = "start" /\ returned = None /\ cresult = None
    /\ problem = None /\ heuristic = null_heuristic /\ alg = "backtracking"
    /\ pc = "idle" /\ nodes = <<>> /\ frontier = <<>> /\ explored = {}
    /\ cost_so_far = <<>> /\ result = NoNode /\ actionsCalls = 0 /\ expanded = <<>>
    /\ phase = 0 /\ alone = None /\ suspended = None
    /\ game = None /\ board = <<>>

NextCSP ==
    \/ backtracking_search \/ backtrack_enter \/ backtrack_value
    \/ backtrack_exhausted \/ backtrack_resume \/ backtracking_search_return

SpecCSP == InitCSP /\ [][NextCSP]_vars

\* backtracking_search runs in one thread from its call to its return, so
\* a step that can be taken is taken
FairSpecCSP == InitCSP /\ [][NextCSP]_vars /\ WF_vars(NextCSP)

\* ------------------------------------------------------- Australia map
\* MapColoringCSP() with its defaults, and MapColoringCSP(colors = ...)
AustraliaRegions == <<"WA", "NT", "SA", "Q", "NSW", "V", "T">>

AustraliaNeighbors ==
    [WA |-> {"NT", "SA"},
     NT |-> {"WA", "SA", "Q"},
     SA |-> {"WA", "NT", "Q", "NSW", "V"},
     Q |-> {"NT", "SA", "NSW"},
     NSW |-> {"Q", "SA", "V"},
     V |-> {"SA", "NSW"},
     T |-> {}]

DefaultColors == <<"Red", "Green", "Blue">>

AustraliaMap(colors) ==
    [variables |-> AustraliaRegions, colors |-> colors,
     neighbors |-> AustraliaNeighbors]

\* the colour lists of the tests: the default, ["Red", "Blue"], and the
\* shorter, longer and reordered lists around them
ColorLists ==
    {DefaultColors, <<"Red", "Blue">>, <<"Green", "Blue">>, <<"Red">>, <<>>,
     <<"Blue", "Green", "Red">>, <<"Red", "Green", "Blue", "Yellow">>}

InitAustralia ==
    /\ csp \in {AustraliaMap(colors) : colors \in ColorLists}
    /\ assignment = <<>> /\ stack = <<>>
    /\ cpc = "start" /\ returned = None /\ cresult = None
    /\ problem = None /\ heuristic = null_heuristic /\ alg = "backtracking"
    /\ pc = "idle" /\ nodes = <<>> /\ frontier = <<>> /\ explored = {}
    /\ cost_so_far = <<>> /\ result = NoNode /\ actionsCalls = 0 /\ expanded = <<>>
    /\ phase = 0 /\ alone = None /\ suspended = None
    /\ game = None /\ board = <<>>

SpecAustralia == InitAustralia /\ [][NextCSP]_vars

\* ------------------------------------------- repeated and interleaved calls
\* The same call is made three times on the same instance: once alone, then
\* twice more with the steps of the two invocations interleaved in any
\* order.  The variables pc .. cresult are the locals of the invocation
\* that is running; suspended holds those of the one that is not.
Locals ==
    [pc |-> pc, nodes |-> nodes, frontier |-> frontier, explored |-> explored,
     cost_so_far |-> cost_so_far, result |-> result,
     actionsCalls |-> actionsCalls, expanded |-> expanded, assignment |-> assignment,
     stack |-> stack, cpc |-> cpc, returned |-> returned, cresult |-> cresult]

StartPc(a) == IF a = "backtracking" THEN "idle" ELSE "start"

StartCpc(a) == IF a = "backtracking" THEN "start" ELSE "idle"

\* an invocation that has been called and has not run a step yet
NotStarted(a) ==
    [pc |-> StartPc(a), nodes |-> <<>>, frontier |-> <<>>, explored |-> {},
     cost_so_far |-> <<>>, result |-> NoNode, actionsCalls |-> 0, expanded |-> <<>>,
     assignment |-> <<>>, stack |-> <<>>, cpc |-> StartCpc(a),
     returned |-> None, cresult |-> None]

FinishedLocals(l) == l.pc = "done" \/ l.cpc = "done"

\* what the caller sees of a finished invocation
OutcomeOf(a, l) ==
    IF a = "backtracking"
    THEN [found |-> l.cresult # None,
          assignment |-> IF l.cresult = None THEN <<>> ELSE l.assignment]
    ELSE [found |-> l.result # NoNode,
          states |-> extract_state_path(l.nodes, l.result),
          actions |-> IF l.result = NoNode THEN <<>>
                      ELSE extract_solution_path(l.nodes, l.result),
          path_cost |-> IF l.result = NoNode THEN 0
                        ELSE l.nodes[l.result].path_cost,
          depth |-> IF l.result = NoNode THEN 0 ELSE l.nodes[l.result].depth]

\* the first call has returned; the same call is made twice more.  The
\* locals of the returned call are dead: each new call binds its own.
call_pair ==
    /\ phase = 1 /\ FinishedLocals(Locals)
    /\ alone' = [outcome |-> OutcomeOf(alg, Locals), nodes |-> nodes]
    /\ phase' = 2
    /\ suspended' = NotStarted(alg)
    /\ pc' = StartPc(alg) /\ cpc' = StartCpc(alg)
    /\ result' = NoNode /\ actionsCalls' = 0 /\ expanded' = <<>>
    /\ returned' = None /\ cresult' = None
    /\ UNCHANGED <<problem, heuristic, alg, csp, nodes, frontier, explored,
                   cost_so_far, assignment, stack, gameVars>>

\* the scheduler suspends the running invocation and resumes the other
switch ==
    /\ phase = 2 /\ ~FinishedLocals(suspended)
    /\ suspended' = Locals
    /\ pc' = suspended.pc /\ nodes' = suspended.nodes
    /\ frontier' = suspended.frontier /\ explored' = suspended.explored
    /\ cost_so_far' = suspended.cost_so_far /\ result' = suspended.result
    /\ actionsCalls' = suspended.actionsCalls
    /\ expanded' = suspended.expanded
    /\ assignment' = suspended.assignment /\ stack' = suspended.stack
    /\ cpc' = suspended.cpc /\ returned' = suspended.returned
    /\ cresult' = suspended.cresult
    /\ UNCHANGED <<problem, heuristic, alg, csp, phase, alone, gameVars>>

\* the instances the repeated calls are made on: the whole number line
\* with step costs and one extra action, and the maps whose neighbour
\* relation is symmetric
PairProblems ==
    {p \in InitialProblems : p.costSensitive /\ p.rightBound = NumStates - 1}

SymmetricNeighborDicts(n) ==
    {nb \in NeighborDicts(n) :
        \A v, w \in 1 .. n : w \in nb[v] => v \in nb[w]}

InitTwo ==
    /\ phase = 1 /\ alone = None /\ suspended = None
    /\ game = None /\ board = <<>>
    /\ nodes = <<>> /\ frontier = <<>> /\ explored = {} /\ cost_so_far = <<>>
    /\ result = NoNode /\ actionsCalls = 0 /\ expanded = <<>>
    /\ assignment = <<>> /\ stack = <<>> /\ returned = None /\ cresult = None
    /\ \/ /\ problem \in PairProblems
          /\ alg \in Algorithms
          /\ heuristic \in IF alg = "astar" THEN Heuristics
                           ELSE {null_heuristic}
          /\ csp = None
       \/ /\ \E n \in 0 .. NumRegions, k \in 0 .. NumColors :
                \E nb \in SymmetricNeighborDicts(n) :
                    csp = MapColoringCSP(n, k, nb)
          /\ alg = "backtracking"
          /\ problem = None /\ heuristic = null_heuristic
    /\ pc = StartPc(alg) /\ cpc = StartCpc(alg)

NextTwo == Next \/ NextCSP \/ call_pair \/ switch

SpecTwo == InitTwo /\ [][NextTwo]_vars

\* --------------------------------------------- two algorithms, one problem
\* One algorithm is called on a problem and returns; then another one is
\* called on the same problem.  alone keeps what the caller saw of the
\* first call: its outcome and how often it called the domain's actions.
MaxRight == 5
MaxLength == 2
MaxWidth == 3
MaxWalls == 1

NoJump == -1

\* NumberLine(initial_state=0, leftBound=0, rightBound=n): no action but
\* the two steps, no step_cost, the goal is the right bound
NumberLine(n) ==
    [rightBound |-> n, goal |-> n, jumpFrom |-> NoJump, jumpTo |-> NoJump,
     jumpCost |-> 1, jumpAct |-> None, costSensitive |-> FALSE]

\* SimpleMetricProblem(start=0, goal=g): steps left above 0 and right
\* below 10, step_cost 1.0 from the MetricProblem mixin
SimpleMetricProblem(g) ==
    [rightBound |-> 10, goal |-> g, jumpFrom |-> NoJump, jumpTo |-> NoJump,
     jumpCost |-> 1, jumpAct |-> "jump", costSensitive |-> TRUE]

IsPureLine(p) == ~IsMaze(p) /\ p.jumpFrom = NoJump

CompareLines ==
    PairProblems
    \cup {NumberLine(n) : n \in 0 .. MaxRight}
    \cup {SimpleMetricProblem(g) : g \in {3, 5}}

GridOrder == <<"up", "down", "left", "right">>

MoveOrders ==
    {o \in [1 .. 4 -> Moves] : \A i, j \in 1 .. 4 : i # j => o[i] # o[j]}

SmallMazes ==
    UNION {LET cells == (0 .. l - 1) \X (0 .. w - 1)
           IN  {Maze(l, w, walls, start, goal, GridOrder) :
                    walls \in {ws \in SUBSET cells : Cardinality(ws) <= MaxWalls},
                    start \in cells, goal \in cells}
           : l \in 1 .. MaxLength, w \in 1 .. MaxWidth}

\* the maze of test_astar_explores_fewer_nodes_than_bfs
FixtureWalls ==
    {<<0, 1>>, <<0, 3>>, <<0, 5>>, <<0, 6>>, <<0, 7>>, <<0, 10>>,
     <<1, 1>>, <<1, 3>>, <<1, 7>>, <<1, 9>>, <<1, 10>>,
     <<2, 3>>, <<2, 5>>, <<2, 9>>, <<2, 10>>,
     <<3, 0>>, <<3, 2>>, <<3, 3>>, <<3, 5>>, <<3, 7>>, <<3, 9>>, <<3, 10>>,
     <<4, 0>>, <<4, 5>>, <<4, 7>>,
     <<5, 0>>, <<5, 1>>, <<5, 2>>, <<5, 4>>, <<5, 5>>, <<5, 7>>, <<5, 8>>,
     <<5, 9>>, <<5, 10>>, <<5, 11>>,
     <<6, 4>>, <<6, 5>>}

FixtureMaze(order) == Maze(7, 12, FixtureWalls, <<6, 0>>, <<0, 11>>, order)

IsFixture(p) == IsMaze(p) /\ p.length = 7 /\ p.width = 12

CompareMazes ==
    {m \in SmallMazes : m.start \notin m.walls /\ m.goal \notin m.walls}
    \cup {FixtureMaze(order) : order \in MoveOrders}

\* the heuristics that are 1 at one state and zero elsewhere
UnitHeuristics == [hs : States, hv : {1}]

\* the second call: on a maze astar with the Manhattan distance to the
\* goal, or dfs; on a line bfs, dfs, astar with its default heuristic and, where
\* the line is one of the bounded family, astar with each heuristic
SecondCalls(p) ==
    IF IsMaze(p)
    THEN {[alg |-> a, heuristic |-> manhattan_heuristic(p.goal)] :
             a \in {"astar", "dfs"}}
    ELSE {[alg |-> a, heuristic |-> null_heuristic] :
             a \in {"bfs", "dfs", "astar"}}
         \cup (IF IsPureLine(p) THEN {}
               ELSE {[alg |-> "astar", heuristic |-> hr] :
                        hr \in Heuristics \cup UnitHeuristics})

call_second ==
    /\ phase = 3 /\ pc = "done"
    /\ alone' = [outcome |-> OutcomeOf(alg, Locals), alg |-> alg,
                 actionsCalls |-> actionsCalls]
    /\ phase' = 4
    /\ \E c \in SecondCalls(problem) :
           alg' = c.alg /\ heuristic' = c.heuristic
    /\ pc' = "start" /\ nodes' = <<>> /\ frontier' = <<>> /\ explored' = {}
    /\ cost_so_far' = <<>> /\ result' = NoNode /\ actionsCalls' = 0 /\ expanded' = <<>>
    /\ UNCHANGED <<problem, cspVars, suspended, gameVars>>

InitCompare ==
    /\ \/ problem \in CompareLines /\ alg = "ucs"
       \/ problem \in CompareMazes /\ alg = "bfs"
    /\ heuristic = null_heuristic
    /\ pc = "start" /\ nodes = <<>> /\ frontier = <<>> /\ explored = {}
    /\ cost_so_far = <<>> /\ result = NoNode /\ actionsCalls = 0 /\ expanded = <<>>
    /\ csp = None /\ assignment = <<>> /\ stack = <<>>
    /\ cpc = "idle" /\ returned = None /\ cresult = None
    /\ phase = 3 /\ alone = None /\ suspended = None
    /\ game = None /\ board = <<>>

NextCompare == Next \/ call_second

SpecCompare == InitCompare /\ [][NextCompare]_vars

\* ----------------------------------------------------------- tic-tac-toe
MaxSize == 2

\* TicTacToe(size, win_length): win_length is read only by the winning
\* lines, which player, actions and result never look at
TicTacToe(size, win_length) == [size |-> size, win_length |-> win_length]

\* TicTacToe(): the classic board of the default arguments
DefaultGame == TicTacToe(3, 3)

\* the games played: the default one and every smaller one the constructor
\* accepts (win_length may not exceed size)
Games ==
    {DefaultGame} \cup
    {g \in [size : 0 .. MaxSize, win_length : 0 .. MaxSize] :
        g.win_length <= g.size}

\* tuple(0 for _ in range(size * size)), indexed from 0 as in the code
ttt_initial_state(g) == [i \in 0 .. g.size * g.size - 1 |-> 0]

\* a player that reads whose turn it is off the sign of the cell sum
player_by_sum(state) ==
    LET ones == Cardinality({i \in DOMAIN state : state[i] = 1})
        minus == Cardinality({i \in DOMAIN state : state[i] = -1})
    IN  IF ones >= minus THEN 1 ELSE -1

\* +1 when the number of non-zero cells is even, else -1
player(state) ==
    LET moves_made == Cardinality({i \in DOMAIN state : state[i] # 0})
    IN  IF moves_made % 2 = 0 THEN 1 ELSE -1

\* the indices of the empty cells, in increasing order
ttt_actions(state) ==
    SelectSeq([k \in 1 .. Cardinality(DOMAIN state) |-> k - 1],
              LAMBDA i : state[i] = 0)

\* a copy of the board with the current player's piece at action
ttt_result(state, action) == [state EXCEPT ![action] = player(state)]

\* one move of a game: result applied to an action that actions returned
play ==
    /\ \E offered \in {ttt_actions(board)} :
       \E k \in 1 .. Len(offered) :
          board' = ttt_result(board, offered[k])
    /\ UNCHANGED <<searchVars, cspVars, runVars, game>>

InitTicTacToe ==
    /\ game \in Games
    /\ board = ttt_initial_state(game)
    /\ problem = None /\ heuristic = null_heuristic /\ alg = "play"
    /\ pc = "idle" /\ nodes = <<>> /\ frontier = <<>> /\ explored = {}
    /\ cost_so_far = <<>> /\ result = NoNode /\ actionsCalls = 0 /\ expanded = <<>>
    /\ csp = None /\ assignment = <<>> /\ stack = <<>>
    /\ cpc = "idle" /\ returned = None /\ cresult = None
    /\ phase = 0 /\ alone = None /\ suspended = None

NextTicTacToe == play

SpecTicTacToe == InitTicTacToe /\ [][NextTicTacToe]_vars

\* ------------------------------------------------ reference definitions
\* What the claims compare the algorithms against: reachability, fewest
\* actions and cheapest cost in the domain's graph, computed from actions,
\* domain_result and step_cost alone.
Infinity == NumStates * (MaxStepCost + 1) + 1

Min(S) == CHOOSE x \in S : \A y \in S : x <= y

ActionIndex(p, s) == 1 .. Len(actions(p, s))

Successors(p, s) == {domain_result(p, s, actions(p, s)[i]) : i \in ActionIndex(p, s)}

\* the cost expand charges for the i-th action of s
EdgeCost(p, s, i) ==
    IF p.costSensitive
    THEN step_cost(p, s, actions(p, s)[i], domain_result(p, s, actions(p, s)[i]))
    ELSE 1

RECURSIVE ReachWithin(_, _, _)
ReachWithin(p, r, k) ==
    IF k = 0 THEN r
    ELSE ReachWithin(p, r \cup UNION {Successors(p, s) : s \in r}, k - 1)

GoalWithin(p, k) ==
    \E s \in ReachWithin(p, {initial_state(p)}, k) : is_goal(p, s)

GoalReachable(p) == GoalWithin(p, NumStates)

\* fewest actions from the initial state to a goal (goal reachable)
MinDepth(p) == Min({k \in 0 .. NumStates : GoalWithin(p, k)})

\* one round of relaxation of the cost vector d (d[s + 1] is the cost of s)
Relaxed(p, d, s) ==
    Min({d[s + 1]} \cup UNION
        {{d[u + 1] + EdgeCost(p, u, i) :
            i \in {j \in ActionIndex(p, u) :
                     domain_result(p, u, actions(p, u)[j]) = s}} :
         u \in {v \in States : d[v + 1] < Infinity}})

RECURSIVE RelaxAll(_, _, _, _)
RelaxAll(p, d, s, acc) ==
    IF s = NumStates THEN acc
    ELSE RelaxAll(p, d, s + 1, Append(acc, Relaxed(p, d, s)))

\* cheapest cost from a state to every state, over paths of at most k actions
RECURSIVE Dist(_, _, _)
Dist(p, d, k) ==
    IF k = 0 THEN d ELSE Dist(p, RelaxAll(p, d, 0, <<>>), k - 1)

DistFrom(p, from) ==
    Dist(p, [i \in 1 .. NumStates |-> IF i = from + 1 THEN 0 ELSE Infinity],
         NumStates)

\* cheapest cost from a state to any goal; Infinity when none is reachable
CostToGoal(p, from) ==
    Min({Infinity} \cup
        {DistFrom(p, from)[g + 1] : g \in {s \in States : is_goal(p, s)}})

MinCost(p) == CostToGoal(p, initial_state(p))

Admissible(p, hr) ==
    \A s \in States : h(hr, s) > 0 => h(hr, s) <= CostToGoal(p, s)

Consistent(p, hr) ==
    /\ \A s \in States : is_goal(p, s) => h(hr, s) = 0
    /\ \A s \in States : \A i \in ActionIndex(p, s) :
          h(hr, s) <= EdgeCost(p, s, i)
                      + h(hr, domain_result(p, s, actions(p, s)[i]))

Returned == pc = "done" /\ result # NoNode

\* ---------------------------------------------------------------- claims

\* C1: when a goal is reachable, bfs returns a goal node whose depth is the
\* fewest number of actions leading from the initial state to any goal.
C1_BfsMinimalDepth ==
    (alg = "bfs" /\ pc = "done" /\ GoalReachable(problem)) =>
        /\ result # NoNode
        /\ is_goal(problem, nodes[result].state)
        /\ nodes[result].depth = MinDepth(problem)

\* bfs has returned a goal two or more actions away that dfs-order would
\* have reached by a longer route
C1_Witness ==
    /\ alg = "bfs" /\ Returned
    /\ nodes[result].depth >= 2
    /\ problem.jumpFrom = 0 /\ problem.jumpTo = problem.goal - 1
    /\ problem.rightBound >= problem.goal

\* C2: with non-negative step costs and an admissible heuristic (consistent
\* or not) astar returns a goal node whose path_cost is the cheapest cost of
\* any path from the initial state to a goal.  The call that
\* uniform_cost_search makes, astar with null_heuristic, is one of them.
C2_AstarOptimal ==
    (alg \in {"astar", "ucs"} /\ pc = "done" /\ GoalReachable(problem)
       /\ Admissible(problem, heuristic)) =>
        /\ result # NoNode
        /\ is_goal(problem, nodes[result].state)
        /\ nodes[result].path_cost = MinCost(problem)

\* astar has returned under an admissible heuristic that is not consistent,
\* after recording a cheaper path to a state it had already expanded
C2_Witness ==
    /\ alg = "astar" /\ Returned
    /\ Admissible(problem, heuristic) /\ ~Consistent(problem, heuristic)
    /\ \E a, b \in 1 .. Len(nodes) :
          /\ a < b
          /\ nodes[a].state = nodes[b].state
          /\ nodes[b].path_cost < nodes[a].path_cost
          /\ \E c, d \in 1 .. Len(nodes) :
                nodes[c].parent = a /\ nodes[d].parent = b

\* ------------------------------------------------- csp: reference notions
Variables(c) == {c.variables[i] : i \in 1 .. Len(c.variables)}

ColorSet(c) == {c.colors[j] : j \in 1 .. Len(c.colors)}

Symmetric(c) ==
    \A a, b \in Variables(c) : b \in c.neighbors[a] => a \in c.neighbors[b]

\* a has no region coloured like one of its neighbours
ConflictFree(c, a) ==
    \A v \in DOMAIN a : \A w \in c.neighbors[v] \cap DOMAIN a : a[v] # a[w]

Satisfiable(c) ==
    \E a \in [Variables(c) -> ColorSet(c)] : ConflictFree(c, a)

MutuallyAdjacent(c, S) ==
    \A v \in S : S \ {v} \subseteq c.neighbors[v]

\* C3: an assignment returned for a map-colouring CSP with a symmetric
\* neighbour relation binds every declared variable, each to a value of
\* its domain, and gives no two neighbouring variables the same value.
C3_ReturnedAssignmentValid ==
    (cpc = "done" /\ cresult # None /\ Symmetric(csp)) =>
        /\ DOMAIN assignment = Variables(csp)
        /\ \A v \in Variables(csp) :
              \E j \in 1 .. Len(domains(csp)[v]) :
                  assignment[v] = domains(csp)[v][j]
        /\ ConflictFree(csp, assignment)

\* a colouring has been returned for three regions, two of them adjacent
\* to the third, that needed more than one colour
C3_Witness ==
    /\ cpc = "done" /\ cresult # None /\ Symmetric(csp)
    /\ Len(csp.variables) = 3
    /\ \E v \in Variables(csp) : Cardinality(csp.neighbors[v]) = 2
    /\ Cardinality({assignment[v] : v \in DOMAIN assignment}) >= 2

\* C4 as stated: backtracking_search returns None if and only if no
\* complete assignment satisfying all constraints exists.
C4_NoneIffUnsatisfiable ==
    cpc = "done" => (cresult = None <=> ~Satisfiable(csp))

\* C4, amended: for a symmetric neighbour relation backtracking_search
\* returns None if and only if no complete conflict-free assignment exists.
C4_NoneIffUnsatisfiableSymmetric ==
    (cpc = "done" /\ Symmetric(csp)) =>
        (cresult = None <=> ~Satisfiable(csp))

\* three mutually adjacent regions and two colours: None has been returned
C4_Witness ==
    /\ cpc = "done" /\ cresult = None /\ Symmetric(csp)
    /\ Len(csp.variables) = 3 /\ Len(csp.colors) = 2
    /\ MutuallyAdjacent(csp, Variables(csp))

\* C5: when the initial state is a goal, bfs, dfs, uniform_cost_search and
\* astar return the root node (initial state, no parent, depth 0, cost 0)
\* and never call the domain's actions.
C5_RootGoalNoExpansion ==
    (pc = "done" /\ is_goal(problem, initial_state(problem))) =>
        /\ result # NoNode
        /\ nodes[result] = [state |-> initial_state(problem), parent |-> NoNode,
                            action |-> None, path_cost |-> 0, depth |-> 0]
        /\ Len(nodes) = 1
        /\ actionsCalls = 0

\* a search over a domain whose initial state is the goal has returned
C5_Witness ==
    /\ pc = "done" /\ alg = "bfs"
    /\ is_goal(problem, initial_state(problem))
    /\ Len(actions(problem, initial_state(problem))) = 2

\* C6: bfs, dfs and astar return None exactly when no goal state is
\* reachable from the initial state, and a node whose state is a goal
\* otherwise.
C6_NoneIffUnreachable ==
    pc = "done" =>
        /\ (result = NoNode) <=> ~GoalReachable(problem)
        /\ result # NoNode => is_goal(problem, nodes[result].state)

\* a search has returned None although the domain has a goal state, which
\* lies beyond the right bound where the extra action does not lead
C6_Witness ==
    /\ pc = "done" /\ result = NoNode
    /\ problem.goal \in States
    /\ actionsCalls >= 2

\* the state sequence obtained by applying the actions one by one
RECURSIVE Replay(_, _, _)
Replay(p, s, acts) ==
    IF acts = <<>> THEN <<s>>
    ELSE <<s>> \o Replay(p, domain_result(p, s, Head(acts)), Tail(acts))

\* C8: for every returned node the state path starts with the initial state,
\* ends with the node's state, and is the sequence obtained by replaying the
\* actions of extract_solution_path through the domain's result.
C8_PathReplay ==
    Returned =>
        LET sp == extract_state_path(nodes, result)
        IN  /\ Head(sp) = initial_state(problem)
            /\ sp[Len(sp)] = nodes[result].state
            /\ Replay(problem, initial_state(problem),
                      extract_solution_path(nodes, result)) = sp

\* C9: for every node of the search tree the action path has depth elements
\* and the state path has depth + 1 elements.
C9_PathLengths ==
    \A id \in 1 .. Len(nodes) :
        /\ Len(extract_solution_path(nodes, id)) = nodes[id].depth
        /\ Len(extract_state_path(nodes, id)) = nodes[id].depth + 1

\* C10: the root has depth 0, path_cost 0, no parent and no action; every
\* other node has its parent's depth plus one and its parent's path_cost
\* plus the step cost of the action that produced it.
C10_NodeInvariant ==
    \A id \in 1 .. Len(nodes) :
        IF id = 1
        THEN /\ nodes[id].parent = NoNode /\ nodes[id].action = None
             /\ nodes[id].depth = 0 /\ nodes[id].path_cost = 0
        ELSE LET par == nodes[id].parent
             IN  /\ par \in 1 .. (id - 1)
                 /\ nodes[id].depth = nodes[par].depth + 1
                 /\ \E i \in ActionIndex(problem, nodes[par].state) :
                       /\ actions(problem, nodes[par].state)[i] = nodes[id].action
                       /\ domain_result(problem, nodes[par].state,
                                        nodes[id].action) = nodes[id].state
                       /\ nodes[id].path_cost =
                            nodes[par].path_cost
                            + EdgeCost(problem, nodes[par].state, i)

\* a node three actions deep whose path_cost differs from its depth
C10_Witness ==
    \E id \in 1 .. Len(nodes) :
        /\ nodes[id].depth >= 3
        /\ nodes[id].path_cost # nodes[id].depth
        /\ nodes[nodes[id].parent].path_cost > 0

\* the Node objects whose parent is node a
ChildrenOf(ns, a) == {c \in 1 .. Len(ns) : ns[c].parent = a}

\* C11: an expanded node has exactly one child per action of its state, in
\* the order the domain yields the actions; the i-th child carries the i-th
\* action, the state the domain's result gives for it, and the expanded
\* node as parent, also when two actions lead to the same state.
C11_ExpandOneChildPerAction ==
    \A a \in 1 .. Len(nodes) :
        LET acts == actions(problem, nodes[a].state)
            kids == ChildrenOf(nodes, a)
        IN  kids # {} =>
                \E base \in 1 .. Len(nodes) :
                    /\ kids = {base + i : i \in 1 .. Len(acts)}
                    /\ \A i \in 1 .. Len(acts) :
                          /\ nodes[base + i].action = acts[i]
                          /\ nodes[base + i].state =
                                domain_result(problem, nodes[a].state, acts[i])

\* a node with three actions has been expanded, two of which lead to the
\* same state, and it has a child for each
C11_Witness ==
    \E a \in 1 .. Len(nodes) :
        /\ Len(actions(problem, nodes[a].state)) = 3
        /\ Cardinality(ChildrenOf(nodes, a)) = 3
        /\ Cardinality({nodes[c].state : c \in ChildrenOf(nodes, a)}) = 2

\* C12: in a domain without step_cost every child costs its parent's
\* path_cost plus 1, so path_cost equals depth throughout the tree, and
\* uniform_cost_search returns a goal node reached with the fewest actions;
\* in a domain with step_cost the increment is step_cost(state, action,
\* next_state).
C12_DefaultUnitCost ==
    /\ ~problem.costSensitive =>
          /\ \A id \in 1 .. Len(nodes) :
                /\ nodes[id].path_cost = nodes[id].depth
                /\ id > 1 => nodes[id].path_cost
                                = nodes[nodes[id].parent].path_cost + 1
          /\ (alg = "ucs" /\ pc = "done" /\ GoalReachable(problem)) =>
                /\ result # NoNode
                /\ is_goal(problem, nodes[result].state)
                /\ nodes[result].depth = MinDepth(problem)
    /\ problem.costSensitive =>
          \A id \in 2 .. Len(nodes) :
              nodes[id].path_cost =
                  nodes[nodes[id].parent].path_cost
                  + step_cost(problem, nodes[nodes[id].parent].state,
                              nodes[id].action, nodes[id].state)

\* uniform_cost_search has returned a goal two or more actions away in a
\* domain without step_cost
C12_Witness ==
    /\ alg = "ucs" /\ Returned /\ ~problem.costSensitive
    /\ nodes[result].depth >= 2
    /\ nodes[result].action = problem.jumpAct

\* every arena of Node objects in existence
Arenas ==
    {nodes} \cup (IF phase = 2 THEN {alone.nodes, suspended.nodes} ELSE {})

IsPrefix(a, b) == Len(a) <= Len(b) /\ SubSeq(b, 1, Len(a)) = a

C13_SameOutcome ==
    (phase = 2 /\ FinishedLocals(Locals) /\ suspended = NotStarted(alg)) =>
        OutcomeOf(alg, Locals) = alone.outcome

C13_NothingChanged ==
    /\ problem' = problem
    /\ csp' = csp
    /\ \A a \in Arenas : \E b \in Arenas' : IsPrefix(a, b)

\* C13: a second run of the same call on the same instance returns what the
\* first returned (state sequence, action sequence, path_cost and depth, or
\* the assignment, or None), and no step changes the domain, the CSP or a
\* field of a node that already exists.
C13_RepeatableAndPure == [](C13_SameOutcome) /\ [][C13_NothingChanged]_vars

\* the second of two runs of bfs in a row has returned a node two or more
\* actions deep, like the first
C13_Witness ==
    /\ phase = 2 /\ alg = "bfs" /\ pc = "done" /\ result # NoNode
    /\ suspended = NotStarted(alg)
    /\ nodes[result].depth >= 2
    /\ alone.outcome.depth >= 2

\* C19: when the steps of two invocations are interleaved in any order,
\* each returns exactly what the call returns when run alone.
C19_InterleavedAsAlone ==
    phase = 2 =>
        /\ FinishedLocals(Locals) => OutcomeOf(alg, Locals) = alone.outcome
        /\ FinishedLocals(suspended) =>
              OutcomeOf(alg, suspended) = alone.outcome

\* the running invocation has returned a node while the other one is in
\* the middle of its loop, some expansions done
C19_Witness ==
    /\ phase = 2 /\ alg = "dfs" /\ pc = "done" /\ result # NoNode
    /\ actionsCalls >= 2
    /\ suspended.pc = "loop" /\ suspended.actionsCalls >= 1
    /\ Len(suspended.frontier) >= 2

\* C14: on the default Australia map backtracking_search returns a complete
\* colouring with no two adjacent regions equal when the colours are Red,
\* Green, Blue, and None when only two colours are available.
C14_AustraliaMap ==
    cpc = "done" =>
        /\ csp.colors = DefaultColors =>
              /\ cresult # None
              /\ DOMAIN assignment = Variables(csp)
              /\ \A v \in Variables(csp) : assignment[v] \in ColorSet(csp)
              /\ ConflictFree(csp, assignment)
        /\ Len(csp.colors) = 2 => cresult = None

\* the default map has been coloured with all three colours, SA unlike
\* its five neighbours
C14_Witness ==
    /\ cpc = "done" /\ cresult # None /\ csp.colors = DefaultColors
    /\ Cardinality(csp.neighbors["SA"]) = 5 /\ csp.neighbors["T"] = {}
    /\ \A w \in csp.neighbors["SA"] : assignment[w] # assignment["SA"]
    /\ {assignment[v] : v \in DOMAIN assignment} = ColorSet(csp)

\* the second call has returned
SecondReturned(a) == phase = 4 /\ pc = "done" /\ alg = a

\* what the caller sees of the second call
Second == OutcomeOf(alg, Locals)

\* C15: on the same cost-sensitive problem uniform_cost_search and astar
\* with an admissible heuristic both find a goal or both find none, and
\* the nodes they return have the same path_cost; on the number line from
\* 0 to 5 with unit step cost both return path_cost 5 and depth 5.
C15_UcsAstarSameCost ==
    (SecondReturned("astar") /\ ~IsMaze(problem) /\ alone.alg = "ucs") =>
        /\ (IsPureLine(problem) \/ Admissible(problem, heuristic)) =>
              /\ Second.found = alone.outcome.found
              /\ Second.path_cost = alone.outcome.path_cost
        /\ (IsPureLine(problem) /\ problem.goal = 5) =>
              /\ Second.found /\ alone.outcome.found
              /\ Second.path_cost = 5 /\ alone.outcome.path_cost = 5
              /\ Second.depth = 5 /\ alone.outcome.depth = 5

\* astar has returned a goal three or more steps away that
\* uniform_cost_search found before it, under an admissible heuristic that
\* is positive at a state on the returned path
C15_Witness ==
    /\ SecondReturned("astar") /\ ~IsMaze(problem) /\ ~IsPureLine(problem)
    /\ alone.alg = "ucs" /\ alone.outcome.found /\ result # NoNode
    /\ heuristic.hv > 0 /\ Admissible(problem, heuristic)
    /\ heuristic.hs \in {Second.states[i] : i \in 1 .. Len(Second.states)}
    /\ Second.depth >= 3
    /\ problem.jumpCost # 1

\* C16: in a domain in which every step costs 1.0, uniform_cost_search
\* and bfs both find a goal or both find none, and the nodes they return
\* have the same depth and the same path_cost.
C16_UcsBfsSameDepthAndCost ==
    (/\ SecondReturned("bfs") /\ ~IsMaze(problem) /\ alone.alg = "ucs"
     /\ problem.jumpCost = 1) =>
        /\ Second.found = alone.outcome.found
        /\ Second.depth = alone.outcome.depth
        /\ Second.path_cost = alone.outcome.path_cost

\* bfs has returned a goal two or more steps away that uniform_cost_search
\* found before it, in a unit-cost domain whose extra action is a shortcut
\* on the returned path
C16_Witness ==
    /\ SecondReturned("bfs") /\ ~IsMaze(problem) /\ ~IsPureLine(problem)
    /\ alone.alg = "ucs" /\ alone.outcome.found /\ result # NoNode
    /\ problem.jumpCost = 1 /\ problem.costSensitive
    /\ Second.depth >= 2
    /\ problem.jumpAct \in {Second.actions[i] : i \in 1 .. Len(Second.actions)}
    /\ problem.jumpTo > problem.jumpFrom + 1

\* C20: on NumberLine with initial state 0, left bound 0 and right bound N
\* dfs returns a node at state N whose reconstructed action path has
\* exactly N actions.
C20_DfsNumberLine ==
    (/\ SecondReturned("dfs") /\ IsPureLine(problem)
     /\ problem.goal = problem.rightBound) =>
        /\ result # NoNode
        /\ nodes[result].state = problem.rightBound
        /\ Len(extract_solution_path(nodes, result)) = problem.rightBound

\* dfs has returned from the line from 0 to 5 after expanding five nodes
C20_Witness ==
    /\ SecondReturned("dfs") /\ IsPureLine(problem)
    /\ problem.goal = problem.rightBound /\ problem.rightBound = 5
    /\ result # NoNode /\ actionsCalls = 5

\* C17: on every grid maze astar with the Manhattan distance to the goal
\* calls the domain's actions no more often than bfs does on the same maze.
C17_AstarNoMoreThanBfs ==
    (SecondReturned("astar") /\ IsMaze(problem) /\ alone.alg = "bfs") =>
        actionsCalls <= alone.actionsCalls

\* C18: on the maze of 7 rows and 12 columns of the test, from (6, 0) to
\* (0, 11), bfs and astar with the Manhattan distance both return a node at
\* the goal, and astar calls the domain's actions fewer times than bfs,
\* in whichever order the maze lists its moves.
C18_FixtureAstarFewer ==
    (SecondReturned("astar") /\ IsFixture(problem) /\ alone.alg = "bfs") =>
        /\ alone.outcome.found
        /\ is_goal(problem, alone.outcome.states[Len(alone.outcome.states)])
        /\ result # NoNode /\ is_goal(problem, nodes[result].state)
        /\ actionsCalls < alone.actionsCalls

\* on the fixture bfs has returned after 46 calls of actions and astar
\* after 39, both with a path of 19 moves
C18_Witness ==
    /\ SecondReturned("astar") /\ IsFixture(problem) /\ alone.alg = "bfs"
    /\ problem.order = GridOrder
    /\ alone.actionsCalls = 46 /\ actionsCalls = 39
    /\ alone.outcome.depth = Second.depth /\ Second.depth >= 17
    /\ Second.states[1] = <<6, 0>>
    /\ Second.states[Len(Second.states)] = <<0, 11>>

\* the nodes in the frontier, and those a step has added to it
FrontierIds(fr) ==
    {IF alg \in {"astar", "ucs"} THEN fr[i].node ELSE fr[i] : i \in DOMAIN fr}

\* a step of the running call (not the call that starts the next one)
SameCall(a) == alg = a /\ alg' = a /\ phase' = phase

NoRepeat(seq) == \A i, j \in DOMAIN seq : i # j => seq[i] # seq[j]

\* every frontier node's state is in explored, no two frontier nodes hold
\* the same state, no state was expanded twice
C21_BfsFrontierExplored ==
    (alg = "bfs" /\ pc \in {"loop", "done"}) =>
        /\ \A i \in DOMAIN frontier : nodes[frontier[i]].state \in explored
        /\ \A i, j \in DOMAIN frontier :
              i # j => nodes[frontier[i]].state # nodes[frontier[j]].state
        /\ NoRepeat(expanded)

\* the states a step adds to explored are exactly the states of the nodes
\* it adds to the frontier, one node per state
C21_BfsMarksAtEnqueue ==
    SameCall("bfs") =>
        LET enqueued == FrontierIds(frontier') \ FrontierIds(frontier)
        IN  /\ explored' \ explored = {nodes'[n].state : n \in enqueued}
            /\ Cardinality(explored' \ explored) = Cardinality(enqueued)
            /\ explored \subseteq explored'

\* C21: in bfs a state is added to explored at the moment its node is
\* enqueued; at every point every frontier node's state is in explored, no
\* two frontier nodes hold the same state, and no state is expanded more
\* than once.
C21_BfsEarlyMarking ==
    [](C21_BfsFrontierExplored) /\ [][C21_BfsMarksAtEnqueue]_vars

\* bfs is in its loop with two nodes waiting, after two expansions one of
\* which generated a child whose state was already explored
C21_Witness ==
    /\ alg = "bfs" /\ pc = "loop" /\ Len(frontier) >= 2
    /\ Len(expanded) >= 2
    /\ \E i \in 2 .. Len(nodes) :
          /\ nodes[i].state \in explored
          /\ i \notin FrontierIds(frontier)
          /\ nodes[i].state \notin {expanded[k] : k \in DOMAIN expanded}

Range(seq) == {seq[i] : i \in DOMAIN seq}

\* the explored set of dfs is the set of states expanded so far
C23_DfsExploredIsExpanded ==
    (alg = "dfs" /\ pc \in {"loop", "done"}) => explored = Range(expanded)

\* a step of dfs marks no state but that of the node it pops and expands,
\* and the children it pushes are left unmarked
C23_DfsMarksAtPop ==
    SameCall("dfs") =>
        /\ \A n \in FrontierIds(frontier') \ FrontierIds(frontier) :
              nodes'[n].state \notin explored'
        /\ explored' # explored =>
              /\ frontier # <<>>
              /\ explored' = explored \cup {nodes[frontier[Len(frontier)]].state}
              /\ Len(expanded') = Len(expanded) + 1

\* C23: in dfs a state enters explored only when a node holding it is
\* popped and expanded, never when a child is pushed; explored always
\* equals the set of states expanded so far (and the frontier can hold
\* several nodes with the same unexplored state, as the witness shows).
C23_DfsLateMarking ==
    [](C23_DfsExploredIsExpanded) /\ [][C23_DfsMarksAtPop]_vars

\* the frontier of dfs holds two nodes with the same state, which is not
\* explored yet
C23_Witness ==
    /\ alg = "dfs" /\ pc = "loop" /\ explored # {}
    /\ \E i, j \in DOMAIN frontier :
          /\ i < j
          /\ nodes[frontier[i]].state = nodes[frontier[j]].state
          /\ nodes[frontier[i]].state \notin explored

\* dfs returns no node but the one on top of the stack, in a step that
\* generates nothing; a step that generates children does not return
C24_DfsReturnsPopped ==
    (SameCall("dfs") /\ pc = "loop") =>
        /\ (pc' = "done" /\ result' # NoNode) =>
              /\ frontier # <<>>
              /\ result' = frontier[Len(frontier)]
              /\ nodes' = nodes
        /\ nodes' # nodes => pc' = "loop"

\* while dfs is in its loop a goal node may wait in the frontier, and the
\* node returned is no longer in it
C24_DfsReturnedLeftFrontier ==
    (alg = "dfs" /\ pc = "done" /\ result # NoNode) =>
        /\ is_goal(problem, nodes[result].state)
        /\ result \notin FrontierIds(frontier)

\* C24: dfs tests for the goal only the node it has just popped, never a
\* child at generation: a generated goal child does not make dfs return,
\* and every non-root node dfs returns is the node just popped.
C24_DfsGoalTestAtPop ==
    [](C24_DfsReturnedLeftFrontier) /\ [][C24_DfsReturnsPopped]_vars

\* dfs has returned a goal node that was generated before the children of
\* another node were, so it waited in the frontier while dfs went on
C24_Witness ==
    /\ alg = "dfs" /\ pc = "done" /\ result > 1
    /\ \E i \in result + 1 .. Len(nodes) :
          nodes[i].parent # nodes[result].parent
    /\ Len(expanded) >= 3

\* the frontier of dfs holds the nodes in the order of their creation
C25_DfsFrontierInPushOrder ==
    (alg = "dfs" /\ pc \in {"loop", "done"}) =>
        \A i, j \in DOMAIN frontier : i < j => frontier[i] < frontier[j]

\* a step of dfs removes the top of the stack and nothing else, and puts
\* the children it pushes on top, in the order of the actions
C25_DfsStackDiscipline ==
    (SameCall("dfs") /\ pc = "loop" /\ frontier' # frontier) =>
        LET n == Len(frontier)
        IN  /\ n >= 1 /\ Len(frontier') >= n - 1
            /\ SubSeq(frontier', 1, n - 1) = SubSeq(frontier, 1, n - 1)
            /\ \A i \in n .. Len(frontier') :
                  /\ frontier'[i] > Len(nodes)
                  /\ nodes'[frontier'[i]].parent = frontier[n]
                  /\ i > n => frontier'[i] > frontier'[i - 1]
            /\ Len(expanded') > Len(expanded) =>
                  expanded'[Len(expanded')] = nodes[frontier[n]].state

\* C25: dfs always pops the most recently pushed node; of the children one
\* expansion pushes, the child of the last action is on top, and whatever
\* is pushed later lies above the earlier-pushed siblings and leaves first.
C25_DfsLifo ==
    [](C25_DfsFrontierInPushOrder) /\ [][C25_DfsStackDiscipline]_vars

\* the stack of dfs holds three or more nodes, the top one deeper than the
\* bottom one, and two siblings pushed by one expansion next to each other
C25_Witness ==
    /\ alg = "dfs" /\ pc = "loop" /\ Len(frontier) >= 3
    /\ nodes[frontier[Len(frontier)]].depth > nodes[frontier[1]].depth
    /\ \E i \in 1 .. Len(frontier) - 1 :
          nodes[frontier[i]].parent = nodes[frontier[i + 1]].parent
    /\ Len(expanded) >= 3

\* C26: on every finite state space, cycles included, dfs terminates, and
\* it expands no state more than once.
C26_DfsTerminates ==
    /\ [](alg = "dfs" => NoRepeat(expanded))
    /\ (alg = "dfs") ~> (alg = "dfs" /\ pc = "done")

\* dfs has returned from a state space with a cycle through a backward
\* extra action, after expanding three or more states and generating a
\* child whose state it had expanded before
C26_Witness ==
    /\ alg = "dfs" /\ pc = "done"
    /\ problem.jumpTo < problem.jumpFrom
    /\ problem.jumpFrom <= problem.rightBound
    /\ Len(expanded) >= 3
    /\ \E i \in 2 .. Len(nodes) :
          /\ nodes[i].action = problem.jumpAct
          /\ nodes[i].state \in explored

\* a step of the running astar or uniform_cost_search
AstarCall == alg \in {"astar", "ucs"} /\ alg' = alg /\ phase' = phase

\* C27: in astar a popped entry whose path_cost exceeds the cost recorded
\* for its state is dropped, with no goal test and no expansion; an entry
\* is goal-tested and expanded only if its path_cost equals that cost.
C27_AstarLazyDeletion ==
    [][(AstarCall /\ pc = "loop" /\ frontier # <<>> /\ frontier' # frontier) =>
          LET n == frontier[1].node
              st == nodes[n].state
          IN  /\ InCost(cost_so_far, st)
              /\ nodes[n].path_cost >= cost_so_far[st]
              /\ nodes[n].path_cost > cost_so_far[st] =>
                    /\ UNCHANGED <<pc, result, nodes, cost_so_far, expanded>>
                    /\ FrontierIds(frontier') = FrontierIds(frontier) \ {n}
              /\ nodes[n].path_cost = cost_so_far[st] =>
                    IF is_goal(problem, st)
                    THEN pc' = "done" /\ result' = n /\ expanded' = expanded
                    ELSE pc' = "loop" /\ expanded' = Append(expanded, st)]_vars

\* the entry astar will pop next is stale: a cheaper path to its state was
\* recorded after it was pushed, and that state has been expanded since
C27_Witness ==
    /\ alg = "astar" /\ pc = "loop" /\ frontier # <<>>
    /\ nodes[frontier[1].node].path_cost
          > cost_so_far[nodes[frontier[1].node].state]
    /\ nodes[frontier[1].node].state \in Range(expanded)

\* every frontier entry carries f = path_cost + h(state), and the cost
\* recorded for its state is no greater than its path_cost
C28_AstarFrontierCosts ==
    (alg \in {"astar", "ucs"} /\ pc \in {"loop", "done"}) =>
        \A i \in DOMAIN frontier :
            LET n == frontier[i].node
            IN  /\ InCost(cost_so_far, nodes[n].state)
                /\ cost_so_far[nodes[n].state] <= nodes[n].path_cost
                /\ frontier[i].f = nodes[n].path_cost + h(heuristic, nodes[n].state)

\* a step never raises a recorded cost; it pushes a child only for a new
\* state or a strictly smaller cost, and records that cost; it changes a
\* recorded cost only to the path_cost of a child it pushes
C28_AstarPushOnImprovement ==
    (AstarCall /\ pc = "loop") =>
        LET pushed == FrontierIds(frontier') \ FrontierIds(frontier)
        IN  /\ \A s \in DOMAIN cost_so_far :
                  /\ s \in DOMAIN cost_so_far'
                  /\ cost_so_far'[s] <= cost_so_far[s]
            /\ \A n \in pushed :
                  LET st == nodes'[n].state
                  IN  /\ \/ ~InCost(cost_so_far, st)
                         \/ nodes'[n].path_cost < cost_so_far[st]
                      /\ cost_so_far'[st] <= nodes'[n].path_cost
            /\ \A s \in DOMAIN cost_so_far' :
                  (~InCost(cost_so_far, s) \/ cost_so_far'[s] # cost_so_far[s]) =>
                      \E n \in pushed : /\ nodes'[n].state = s
                                        /\ nodes'[n].path_cost = cost_so_far'[s]

\* C28: at every point of astar each frontier entry's state has a recorded
\* cost no greater than the entry's path_cost; a recorded cost never
\* increases; a child is pushed, with f = path_cost + h(state), only when
\* its state is new or its path_cost is strictly smaller than the recorded
\* cost, which then becomes that path_cost.
C28_AstarCostMap ==
    [](C28_AstarFrontierCosts) /\ [][C28_AstarPushOnImprovement]_vars

\* the frontier of astar holds two entries for one state: the one pushed
\* first, and a cheaper one pushed when the recorded cost was lowered
C28_Witness ==
    /\ alg = "astar" /\ pc = "loop"
    /\ ~IsMaze(problem) /\ heuristic.hv > 0
    /\ \E i, j \in DOMAIN frontier :
          /\ frontier[i].node < frontier[j].node
          /\ nodes[frontier[i].node].state = nodes[frontier[j].node].state
          /\ nodes[frontier[j].node].path_cost < nodes[frontier[i].node].path_cost
          /\ cost_so_far[nodes[frontier[j].node].state]
                = nodes[frontier[j].node].path_cost

\* the node astar returns from its loop is the one at the head of the
\* heap, whose f is no greater than the f of any entry that remains; a
\* step that generates children does not return
C29_AstarReturnsPopped ==
    (AstarCall /\ pc = "loop") =>
        /\ (pc' = "done" /\ result' # NoNode) =>
              /\ frontier # <<>>
              /\ result' = frontier[1].node
              /\ nodes' = nodes
              /\ \A i \in DOMAIN frontier' : frontier[1].f <= frontier'[i].f
        /\ nodes' # nodes => pc' = "loop"

\* the head of the heap has the least f of the frontier
C29_AstarHeadIsLeast ==
    (alg \in {"astar", "ucs"} /\ pc = "loop") =>
        \A i \in DOMAIN frontier : frontier[1].f <= frontier[i].f

\* C29: astar tests a non-root node for the goal only after popping it,
\* never when it is generated; the node it returns had, when popped, an f
\* no greater than that of any entry remaining in the frontier.
C29_AstarGoalTestAtPop ==
    [](C29_AstarHeadIsLeast) /\ [][C29_AstarReturnsPopped]_vars

\* astar has returned a goal node that waited in the frontier while the
\* children of another node were generated, and left behind an entry
\* with a greater f
C29_Witness ==
    /\ alg = "astar" /\ pc = "done" /\ result > 1
    /\ ~IsMaze(problem) /\ heuristic.hv > 0
    /\ \E i \in result + 1 .. Len(nodes) :
          nodes[i].parent # nodes[result].parent
    /\ \E i \in DOMAIN frontier :
          frontier[i].f > nodes[result].path_cost
                          + h(heuristic, nodes[result].state)

\* the states of the problem the second call runs on
StatesOf(p) ==
    IF IsMaze(p) THEN Cells(p) \ p.walls
    ELSE IF IsPureLine(p) THEN 0 .. p.rightBound
    ELSE States

\* h is zero at every goal and h(s) <= cost(s, s2) + h(s2) on every edge
ConsistentOn(p, hr) ==
    /\ \A s \in StatesOf(p) : is_goal(p, s) => h(hr, s) = 0
    /\ \A s \in StatesOf(p) : \A i \in ActionIndex(p, s) :
          h(hr, s) <= EdgeCost(p, s, i)
                      + h(hr, domain_result(p, s, actions(p, s)[i]))

\* C30 as stated: with any heuristic astar generates the children of no
\* state more than once.
C30_NoReexpansion ==
    alg \in {"astar", "ucs"} => NoRepeat(expanded)

\* C30, amended: with non-negative step costs and a consistent heuristic
\* astar generates the children of no state more than once.
C30_NoReexpansionConsistent ==
    (alg \in {"astar", "ucs"} /\ ConsistentOn(problem, heuristic)) =>
        NoRepeat(expanded)

\* astar has returned under a consistent heuristic that is not zero, after
\* dropping a stale entry: some node was generated with a state recorded at
\* a smaller cost, and is neither expanded nor waiting
C30_Witness ==
    /\ alg = "astar" /\ pc = "done" /\ result # NoNode
    /\ ~IsMaze(problem) /\ heuristic.hv > 0
    /\ ConsistentOn(problem, heuristic)
    /\ Len(expanded) >= 3
    /\ \E i, j \in DOMAIN nodes :
          /\ i < j
          /\ nodes[i].state = nodes[j].state
          /\ nodes[j].path_cost < nodes[i].path_cost
          /\ \E k \in j + 1 .. Len(nodes) : nodes[k].parent = j

\* the cheapest cost from the initial state to state s of a line
TrueCost(p, s) ==
    IF IsPureLine(p) THEN s ELSE DistFrom(p, initial_state(p))[s + 1]

\* C31: in uniform_cost_search with non-negative step costs the path_cost
\* of the entry popped never falls below that of the entry popped before
\* it, and every entry that is expanded carries the least cost of any path
\* from the initial state to its state.
C31_UcsPopsInCostOrder ==
    [][(SameCall("ucs") /\ pc = "loop" /\ frontier # <<>>
        /\ frontier' # frontier) =>
          LET n == frontier[1].node
          IN  /\ frontier' # <<>> =>
                    nodes'[frontier'[1].node].path_cost >= nodes[n].path_cost
              /\ \A i \in DOMAIN frontier' :
                    nodes'[frontier'[i].node].path_cost >= nodes[n].path_cost
              /\ Len(expanded') > Len(expanded) =>
                    nodes[n].path_cost = TrueCost(problem, nodes[n].state)]_vars

\* uniform_cost_search has expanded four or more states of a line whose
\* extra action is dearer than the steps it replaces, and has dropped an
\* entry for a state it had recorded at a smaller cost
C31_Witness ==
    /\ alg = "ucs" /\ pc = "loop" /\ ~IsPureLine(problem)
    /\ Len(expanded) >= 4
    /\ problem.jumpCost > 1
    /\ \E i \in 2 .. Len(nodes) :
          /\ nodes[i].action = problem.jumpAct
          /\ nodes[i].path_cost > cost_so_far[nodes[i].state]
          /\ i \notin FrontierIds(frontier)

\* C32: the state sequence from the root to any node returned by bfs, dfs
\* or astar (non-negative step costs) contains no state twice.
C32_ReturnedPathSimple ==
    (pc = "done" /\ result # NoNode) =>
        NoRepeat(extract_state_path(nodes, result))

\* dfs has returned a node four or more actions deep after generating a
\* child that led back to a state on the returned path
C32_Witness ==
    /\ alg = "dfs" /\ pc = "done" /\ result # NoNode
    /\ nodes[result].depth >= 4
    /\ \E i \in 2 .. Len(nodes) :
          /\ nodes[i].state \in Range(extract_state_path(nodes, nodes[i].parent))
          /\ nodes[i].parent \in
                {k \in DOMAIN nodes :
                    nodes[k].state \in Range(extract_state_path(nodes, result))}

\* the depths of the frontier nodes of bfs, in queue order, never fall,
\* and the last is at most one more than the first
C33_BfsFrontierDepths ==
    (alg = "bfs" /\ pc \in {"loop", "done"}) =>
        /\ \A i, j \in DOMAIN frontier :
              i < j => nodes[frontier[i]].depth <= nodes[frontier[j]].depth
        /\ frontier # <<>> =>
              nodes[frontier[Len(frontier)]].depth
                 <= nodes[frontier[1]].depth + 1

\* the node bfs dequeues next is no shallower than the one it dequeues now
C33_BfsDequeuesByDepth ==
    (SameCall("bfs") /\ pc = "loop" /\ frontier # <<>> /\ frontier' # <<>>) =>
        nodes'[frontier'[1]].depth >= nodes[frontier[1]].depth

\* C33: in bfs the depths of the frontier nodes, read in queue order, are
\* non-decreasing and the last exceeds the first by at most 1; nodes are
\* dequeued in non-decreasing depth order.
C33_BfsLevelOrder ==
    [](C33_BfsFrontierDepths) /\ [][C33_BfsDequeuesByDepth]_vars

\* the queue of bfs holds nodes of two depths, two or more of each
C33_Witness ==
    /\ alg = "bfs" /\ pc = "loop" /\ Len(frontier) >= 4
    /\ nodes[frontier[2]].depth = nodes[frontier[1]].depth
    /\ nodes[frontier[Len(frontier) - 1]].depth = nodes[frontier[1]].depth + 1
    /\ nodes[frontier[1]].depth >= 2

\* how many colours of the list no bound neighbour of v already has
ConsistentCount(c, v, asg) ==
    Cardinality({val \in ColorSet(c) :
                    \A w \in c.neighbors[v] \cap DOMAIN asg : asg[w] # val})

\* the place of v in the declared variable list
VarIndex(c, v) == CHOOSE i \in 1 .. Len(c.variables) : c.variables[i] = v

\* C34: the variable _select_unassigned_variable hands to _backtrack is
\* unassigned, no unassigned variable has fewer values consistent with the
\* current assignment, and every unassigned variable declared before it
\* has strictly more.
C34_MrvSelection ==
    [][(cpc = "call" /\ cpc' = "loop") =>
          LET v == Top(stack').var
          IN  /\ v \in Variables(csp) \ DOMAIN assignment
              /\ \A u \in Variables(csp) \ DOMAIN assignment :
                    /\ ConsistentCount(csp, v, assignment)
                          <= ConsistentCount(csp, u, assignment)
                    /\ VarIndex(csp, u) < VarIndex(csp, v) =>
                          ConsistentCount(csp, u, assignment)
                             > ConsistentCount(csp, v, assignment)]_vars

\* a variable was just selected ahead of one declared before it that has
\* more consistent values left
C34_Witness ==
    /\ cpc = "loop" /\ stack # <<>> /\ Top(stack).i = 1
    /\ Top(stack).var \notin DOMAIN assignment
    /\ \E u \in Variables(csp) \ DOMAIN assignment :
          /\ VarIndex(csp, u) < VarIndex(csp, Top(stack).var)
          /\ ConsistentCount(csp, u, assignment)
                > ConsistentCount(csp, Top(stack).var, assignment)

\* C35: the step in which a call of _backtrack returns None leaves the
\* assignment equal to the one the call was entered with, and the
\* assignment is empty once backtracking_search has returned None.
C35_AssignmentRestored ==
    /\ []((cpc = "done" /\ cresult = None) => assignment = <<>>)
    /\ [][(cpc = "loop" /\ cpc' = "return" /\ returned' = None) =>
             assignment' = Top(stack).entry]_vars

\* the outermost call, which bound its variable to each of two or more
\* colours in turn, has just returned None and the assignment is empty
C35_Witness ==
    /\ cpc = "return" /\ returned = None /\ stack = <<>>
    /\ Len(csp.variables) >= 2 /\ Len(csp.colors) >= 2
    /\ assignment = <<>>

\* the frames of st below the top one
Below(st) == SubSeq(st, 1, Len(st) - 1)

\* C36: a frame starts at the first value of its variable's domain and
\* moves on by one value at a time; the only binding a step makes is of
\* the top frame's variable to the value the frame is at, and only when no
\* bound neighbour has that value; once a call has succeeded the
\* assignment stays as it is and the calls only return.
C36_ValueOrderAndShortCircuit ==
    [][/\ Len(stack') > Len(stack) =>
             /\ Below(stack') = stack
             /\ Top(stack').i = 1
       /\ (Len(stack') = Len(stack) /\ stack' # stack) =>
             /\ Below(stack') = Below(stack)
             /\ Top(stack').var = Top(stack).var
             /\ Top(stack').i = Top(stack).i + 1
       /\ (cpc = "loop" /\ cpc' = "loop") =>
             \E w \in csp.neighbors[Top(stack).var] \cap DOMAIN assignment :
                assignment[w] = csp.colors[Top(stack).i]
       /\ DOMAIN assignment' \ DOMAIN assignment # {} =>
             LET v == Top(stack).var
                 val == csp.colors[Top(stack).i]
             IN  /\ cpc = "loop" /\ stack' = stack
                 /\ DOMAIN assignment' = DOMAIN assignment \cup {v}
                 /\ v \notin DOMAIN assignment
                 /\ assignment'[v] = val
                 /\ \A u \in DOMAIN assignment : assignment'[u] = assignment[u]
                 /\ \A w \in csp.neighbors[v] \cap DOMAIN assignment :
                       assignment[w] # val
       /\ (cpc \in {"return", "done"} /\ returned # None) =>
             /\ assignment' = assignment
             /\ cpc' \in {"return", "done"}
             /\ returned' = returned
             /\ stack' = stack \/ stack' = Below(stack)]_vars

\* a call has succeeded beneath two or more frames, one of which had moved
\* past its first value, and the success is on its way up
C36_Witness ==
    /\ cpc = "return" /\ returned # None
    /\ Len(stack) >= 2
    /\ \E j \in 1 .. Len(stack) : stack[j].i >= 2
    /\ \A j \in 1 .. Len(stack) : assignment[stack[j].var] = csp.colors[stack[j].i]

\* C37: at every point of backtracking_search on a map-colouring CSP with a
\* symmetric neighbour relation the keys of the assignment are declared
\* variables, each value is one of the colours, and no two bound
\* neighbours have the same colour.
C37_PartialAssignmentConflictFree ==
    Symmetric(csp) =>
        /\ DOMAIN assignment \subseteq Variables(csp)
        /\ \A v \in DOMAIN assignment : assignment[v] \in ColorSet(csp)
        /\ \A v, w \in DOMAIN assignment :
              (w \in csp.neighbors[v] \/ v \in csp.neighbors[w]) =>
                  assignment[v] # assignment[w]

\* two neighbouring regions are bound, to different colours, after the
\* search had to skip a colour
C37_Witness ==
    /\ Symmetric(csp) /\ cpc = "call"
    /\ \E v, w \in DOMAIN assignment :
          /\ v # w /\ w \in csp.neighbors[v]
          /\ assignment[v] # assignment[w]
    /\ \E j \in 1 .. Len(stack) : stack[j].i >= 2

\* how many variables the assignment binds
Bound == Cardinality(DOMAIN assignment)

\* C38: backtracking_search terminates on every CSP of the family; a call
\* of _backtrack is entered at a depth equal to the number of bound
\* variables and keeps that many bound while it looks for a value, the
\* depth never exceeds the number of declared variables, a variable is
\* selected only while some variable is unbound, and the base case returns
\* exactly when every declared variable is bound.
C38_TerminatesWithinDepth ==
    /\ [](/\ cpc = "call" => Len(stack) = Bound
          /\ cpc = "loop" => Len(stack) = Bound + 1
          /\ Len(stack) <= Len(csp.variables)
          /\ Bound <= Len(csp.variables))
    /\ [][cpc = "call" =>
            /\ cpc' = "loop" <=> Bound < Len(csp.variables)
            /\ cpc' = "return" <=> Bound = Len(csp.variables)
            /\ cpc' = "return" => returned' # None /\ assignment' = assignment
            /\ cpc' = "loop" => Top(stack').var \notin DOMAIN assignment]_vars
    /\ [][(cpc' = "return" /\ cpc # "return" /\ returned' # None) =>
            (cpc = "call" /\ Bound = Len(csp.variables))]_vars
    /\ <>(cpc = "done")

\* a search over the largest number of regions, with two or more colours,
\* has come to its end without a solution
C38_Witness ==
    /\ cpc = "done"
    /\ Len(csp.variables) = NumRegions
    /\ Len(csp.colors) >= 2
    /\ cresult = None

\* how many cells of the board hold piece
Pieces(state, piece) == Cardinality({i \in DOMAIN state : state[i] = piece})

\* C39: on every board a game can reach, +1 has as many pieces as -1 or
\* one more, it is +1's turn exactly when they have as many, no action on
\* offer is an occupied cell, and a move puts the piece of the player to
\* move on one empty cell and leaves every other cell as it was.
C39_BoardsAlternate ==
    /\ [](/\ Pieces(board, 1) - Pieces(board, -1) \in {0, 1}
          /\ player(board) \in {1, -1}
          /\ player(board) = 1 <=> Pieces(board, 1) = Pieces(board, -1)
          /\ \A offered \in {ttt_actions(board)} :
             \A k \in 1 .. Len(offered) :
                /\ offered[k] \in DOMAIN board
                /\ board[offered[k]] = 0)
    /\ [][board' # board =>
            \E a \in DOMAIN board :
               /\ board[a] = 0
               /\ board'[a] = (IF Pieces(board, 1) = Pieces(board, -1)
                               THEN 1 ELSE -1)
               /\ DOMAIN board' = DOMAIN board
               /\ \A j \in DOMAIN board \ {a} : board'[j] = board[j]]_vars

\* the three-by-three board has been filled: five +1, four -1, no action
\* left on offer
C39_Witness ==
    /\ game.size = 3
    /\ Pieces(board, 1) = 5 /\ Pieces(board, -1) = 4
    /\ Len(ttt_actions(board)) = 0

\* C40: one Node is less than another exactly when its path_cost is
\* smaller; the entry astar takes off the frontier has the smallest
\* f-score of all entries, and no entry of that f-score has a smaller
\* path_cost; it is that entry's node that is expanded or returned.
C40_PopsSmallestF ==
    /\ [](\A a, b \in DOMAIN nodes :
             NodeLt(nodes, a, b) <=> nodes[a].path_cost < nodes[b].path_cost)
    /\ [][(AstarCall /\ pc = "loop" /\ frontier # <<>>
           /\ frontier' # frontier) =>
            LET gone == Range(frontier) \ Range(frontier')
            IN  /\ Cardinality(gone) = 1
                /\ \A e \in gone :
                      /\ \A o \in Range(frontier) :
                            /\ e.f <= o.f
                            /\ e.f = o.f =>
                                  nodes[e.node].path_cost
                                     <= nodes[o.node].path_cost
                      /\ Len(expanded') > Len(expanded) =>
                            expanded'[Len(expanded')] = nodes[e.node].state
                      /\ result' # result => result' = e.node]_vars

\* astar under a heuristic that is not zero everywhere is about to pop,
\* and a second entry has the f-score of the head and a greater path_cost
C40_Witness ==
    /\ alg = "astar" /\ pc = "loop" /\ actionsCalls >= 1
    /\ ~IsMaze(problem) /\ heuristic.hv > 0
    /\ \E i \in 2 .. Len(frontier) :
          /\ frontier[i].f = frontier[1].f
          /\ nodes[frontier[1].node].path_cost
                < nodes[frontier[i].node].path_cost

\* C7: bfs, uniform_cost_search and astar terminate on every finite state
\* space, cycles included, for every heuristic.
C7_Terminates == (alg \in {"bfs", "ucs", "astar"}) ~> (pc = "done")

\* astar has returned from a state space with a cycle through a free
\* backward action, under a heuristic that is not admissible, after
\* expanding three or more nodes
C7_Witness ==
    /\ alg = "astar" /\ pc = "done"
    /\ ~Admissible(problem, heuristic)
    /\ problem.jumpTo < problem.jumpFrom /\ problem.jumpCost = 0
    /\ problem.jumpFrom <= problem.rightBound
    /\ actionsCalls >= 3

\* no search stops short of its return for want of Node objects
CapNeverBinds == pc = "loop" => Len(nodes) < NodeCap(alg)

====
